---- MODULE Spec2Model ----
(***************************************************************************)
(* A state-machine model of the snapshot transfer engine,                   *)
(* be/src/runtime/snapshot_loader.cpp: SnapshotLoader::upload, download,    *)
(* remote_http_download and move, with the helpers they call.               *)
(*                                                                          *)
(* Strings that the code takes apart are kept as the sequence of their      *)
(* parts: a file name is the sequence of its "."-separated segments         *)
(* ("1_0.dat" is <<"1_0", "dat">>), a local path the sequence of its        *)
(* "/"-separated components, a remote path the sequence of its              *)
(* "_"-separated tokens.  The bytes of a file are a content id; Md5 and     *)
(* Size give the checksum and the length of a content.                      *)
(***************************************************************************)
EXTENDS Integers, Sequences, FiniteSets, TLC

VARIABLES
    local,           \* local filesystem: path -> (file name -> content)
    remote,          \* remote store: remote dir -> (object name -> content)
    snapshot_locks,  \* LocalSnapshotLock registry: path -> holding Loader, or "free"
    fe_cancelled,    \* the coordinator has cancelled the job
    engine,          \* storage engine: tablet locks, data dir, loaded tablets
    ld,              \* per Loader: the running call's arguments, locals and position
    hist,            \* per Loader: history of the call (transfers, earlier run, ...)
    last_access      \* local-path accesses made by the last step, with the lock holder then

vars == <<local, remote, snapshot_locks, fe_cancelled, engine, ld, hist, last_access>>

(***************************************************************************)
(* Bounds of the model.                                                     *)
(***************************************************************************)
\* Number of distinct file contents a directory may hold initially.
MaxContent == 2
\* Number of times the caller invokes upload in a row.
MaxRuns == 2

Loaders == {"A", "B"}
NoLoader == "free"

\* The content left by a transfer that silently delivered wrong bytes.
Corrupt == 0
Contents == 1..MaxContent

\* io::global_local_filesystem()->md5sum: the hex digest of a file's bytes.
Md5(c) == IF c = Corrupt THEN "00" ELSE <<"aa", "bb", "cc", "dd", "ee">>[c]

\* std::filesystem::file_size / FileInfo.file_size: two contents may share a size.
Size(c) == IF c = Corrupt THEN 0 ELSE <<1, 1, 2, 2, 3>>[c]

(***************************************************************************)
(* File names, in the byte order std::map<std::string, ...> iterates them.  *)
(***************************************************************************)
Hdr1 == <<"1", "hdr">>
Hdr2 == <<"2", "hdr">>
Hdr5 == <<"5", "hdr">>
Dat == <<"1_0", "dat">>
Idx == <<"1_0", "idx">>
\* A data file of tablet 2: the name of a data or index file begins with the
\* id of the tablet it was written for.
Dat2 == <<"2_0", "dat">>
Txt == <<"x", "txt">>
Bare == <<"y">>

NamePool == <<Hdr1, Dat, Idx, Hdr2, Dat2, Hdr5, Txt, Bare>>

Rank(n) == CHOOSE i \in 1..Len(NamePool) : NamePool[i] = n

RECURSIVE SortNames(_)
SortNames(S) ==
    IF S = {} THEN <<>>
    ELSE LET first == CHOOSE n \in S : \A m \in S : Rank(n) <= Rank(m)
         IN <<first>> \o SortNames(S \ {first})

IntToStr(i) == CASE i = 1 -> "1" [] i = 2 -> "2" [] i = 5 -> "5" [] i = 7 -> "7"
                 [] OTHER -> "0"

\* operator>> of a stringstream into an integer: 0 when the text is no number.
ParseInt(s) == CASE s = "1" -> 1 [] s = "2" -> 2 [] s = "5" -> 5 [] s = "7" -> 7
                 [] OTHER -> 0

SeqToSet(s) == {s[i] : i \in 1..Len(s)}

\* _end_with(str, ".<ext>")
EndWith(name, ext) == Len(name) >= 2 /\ name[Len(name)] = ext

(***************************************************************************)
(* Path codec.                                                              *)
(***************************************************************************)
\* _get_tablet_id_and_schema_hash_from_file_path
GetTabletIdAndSchemaHash(path) ==
    IF Len(path) < 2 \/ path[Len(path)] = ""
    THEN [ok |-> FALSE, tablet_id |-> 0, schema_hash |-> 0]
    ELSE IF Len(path) = 2 /\ path[1] # ""
    THEN [ok |-> FALSE, tablet_id |-> 0, schema_hash |-> 0]
    ELSE IF Len(path) = 2
    THEN \* the only "/" leads the path: find_last_of("/", npos) finds it again
         [ok |-> TRUE, tablet_id |-> 0, schema_hash |-> ParseInt(path[2])]
    ELSE [ok |-> TRUE, tablet_id |-> ParseInt(path[Len(path) - 1]),
          schema_hash |-> ParseInt(path[Len(path)])]

\* _get_tablet_id_from_remote_path
GetTabletIdFromRemotePath(rpath) ==
    IF Len(rpath) < 2 THEN [ok |-> FALSE, tablet_id |-> 0]
    ELSE [ok |-> TRUE, tablet_id |-> ParseInt(rpath[Len(rpath)])]

\* A rewrite that leaves the name of a header as it is.
ReplaceTabletIdKeepName(file_name, tablet_id) ==
    IF EndWith(file_name, "hdr") \/ EndWith(file_name, "idx") \/ EndWith(file_name, "dat")
    THEN [ok |-> TRUE, name |-> file_name]
    ELSE [ok |-> FALSE, name |-> <<>>]

\* A rewrite that accepts a name of any suffix.
ReplaceTabletIdAnySuffix(file_name, tablet_id) ==
    IF EndWith(file_name, "hdr")
    THEN [ok |-> TRUE, name |-> <<IntToStr(tablet_id), "hdr">>]
    ELSE [ok |-> TRUE, name |-> file_name]

\* _replace_tablet_id
ReplaceTabletId(file_name, tablet_id) ==
    IF EndWith(file_name, "hdr")
    THEN [ok |-> TRUE, name |-> <<IntToStr(tablet_id), "hdr">>]
    ELSE IF EndWith(file_name, "idx") \/ EndWith(file_name, "dat")
    THEN [ok |-> TRUE, name |-> file_name]
    ELSE [ok |-> FALSE, name |-> <<>>]

(***************************************************************************)
(* Checksum-indexed remote naming.                                          *)
(***************************************************************************)
\* The name of a remote object without its last segment.
Strip(obj) == SubSeq(obj, 1, Len(obj) - 1)

FileStatOf(objs, o) == [name |-> Strip(o), md5 |-> o[Len(o)], size |-> Size(objs[o])]

\* _list_with_checksum: md5_files->emplace keeps, for each stripped name, the
\* first object the backend lists; the order of a listing is the backend's, so
\* every choice among the objects of one stripped name is a possible result.
ListWithChecksum(objs) ==
    LET keys == {Strip(o) : o \in {o \in DOMAIN objs : Len(o) >= 2 /\ o[Len(o)] # ""}}
        picks == {f \in [keys -> {o \in DOMAIN objs : Len(o) >= 2 /\ o[Len(o)] # ""}] : \A k \in keys : Strip(f[k]) = k}
    IN {[k \in keys |-> FileStatOf(objs, f[k])] : f \in picks}

\* upload_with_checksum: the name the object is committed under.
FullRemotePath(remote_file, checksum) == remote_file \o <<checksum>>

\* io::RemoteFileSystem::upload and rename may fail; the two-phase kinds also
\* between the two phases.
UploadOutcomes(type) ==
    IF type = "S3" THEN {"ok", "upload_fail"} ELSE {"ok", "upload_fail", "rename_fail"}

\* An upload of the two-phase kinds that writes the object under its final
\* name before the rename.
UploadInPlace(type, objs, remote_file, content, checksum, outcome) ==
    LET full == FullRemotePath(remote_file, checksum)
    IN IF outcome = "upload_fail" THEN [ok |-> FALSE, objs |-> objs]
       ELSE [ok |-> outcome = "ok", objs |-> (full :> content) @@ objs]

\* An upload that deletes the other objects of the same file.
UploadReplacingStale(type, objs, remote_file, content, checksum, outcome) ==
    LET full == FullRemotePath(remote_file, checksum)
        others == {o \in DOMAIN objs : Strip(o) = remote_file /\ o # full}
    IN IF outcome # "ok" THEN [ok |-> FALSE, objs |-> objs]
       ELSE [ok |-> TRUE,
             objs |-> (full :> content) @@ [x \in (DOMAIN objs) \ others |-> objs[x]]]

\* upload_with_checksum on the objects of one remote directory.
UploadWithChecksum(type, objs, remote_file, content, checksum, outcome) ==
    LET full == FullRemotePath(remote_file, checksum)
        temp == remote_file \o <<"part">>
        without(o) == [x \in (DOMAIN objs) \ {o} |-> objs[x]]
    IN IF outcome = "upload_fail" THEN [ok |-> FALSE, objs |-> objs]
       ELSE IF type = "S3" THEN [ok |-> TRUE, objs |-> (full :> content) @@ objs]
       ELSE IF outcome = "rename_fail"
       THEN [ok |-> FALSE, objs |-> (temp :> content) @@ objs]
       ELSE [ok |-> TRUE, objs |-> (full :> content) @@ without(temp)]

(***************************************************************************)
(* Progress / cancellation reporter.                                        *)
(***************************************************************************)
\* The threshold upload, download and remote_http_download pass to
\* _report_every inside their loops.
ReportThreshold == 10

\* What the snapshotLoaderReport RPC can do: fail in transport, or reach the
\* coordinator, which answers CANCELLED once the job is cancelled and OK or
\* another status otherwise.
RpcOutcomes == {"fail", "other", IF fe_cancelled THEN "cancelled" ELSE "ok"}

\* The outcomes of the RPC of one call of _report_every: none is made while
\* the counter stays within the threshold.
RpcChoices(report_threshold, counter) ==
    IF counter + 1 <= report_threshold THEN {"none"} ELSE RpcOutcomes

\* A reporter that does not listen to the answer of the coordinator.
ReportEveryDeaf(report_threshold, counter, rpc) ==
    LET c == counter + 1
    IN IF c <= report_threshold THEN [st |-> "OK", counter |-> c, rpc |-> "none"]
       ELSE IF rpc = "fail" THEN [st |-> "OK", counter |-> c, rpc |-> rpc]
       ELSE [st |-> "OK", counter |-> 0, rpc |-> rpc]

\* A reporter that gives up when the RPC fails in transport.
ReportEveryFailStops(report_threshold, counter, rpc) ==
    LET c == counter + 1
    IN IF c <= report_threshold THEN [st |-> "OK", counter |-> c, rpc |-> "none"]
       ELSE IF rpc = "fail" THEN [st |-> "Cancelled", counter |-> c, rpc |-> rpc]
       ELSE [st |-> IF rpc = "cancelled" THEN "Cancelled" ELSE "OK",
             counter |-> 0, rpc |-> rpc]

\* A reporter that lets one more call pass before it asks.
ReportEveryOneLate(report_threshold, counter, rpc) ==
    LET c == counter + 1
    IN IF c <= report_threshold + 1 THEN [st |-> "OK", counter |-> c, rpc |-> "none"]
       ELSE IF rpc = "fail" THEN [st |-> "OK", counter |-> c, rpc |-> rpc]
       ELSE [st |-> IF rpc = "cancelled" THEN "Cancelled" ELSE "OK",
             counter |-> 0, rpc |-> rpc]

\* _report_every
ReportEvery(report_threshold, counter, rpc) ==
    LET c == counter + 1
    IN IF c <= report_threshold THEN [st |-> "OK", counter |-> c, rpc |-> "none"]
       ELSE IF rpc = "fail" THEN [st |-> "OK", counter |-> c, rpc |-> rpc]
       ELSE [st |-> IF rpc = "cancelled" THEN "Cancelled" ELSE "OK",
             counter |-> 0, rpc |-> rpc]

(***************************************************************************)
(* Local snapshot lock registry and bookkeeping shared by the operations.   *)
(***************************************************************************)
\* An acquire that never waits.
NeverHeld(path) == TRUE

\* A registry with one lock for all paths.
FreeRegistryWide(path) == \A p \in DOMAIN snapshot_locks : snapshot_locks[p] = NoLoader

\* LocalSnapshotLock::acquire blocks while another guard of the path is alive.
Free(path) == snapshot_locks[path] = NoLoader

\* A guard that does not enter the path in the registry.
AcquireNothing(locks, path, l) == locks

\* LocalSnapshotLock::acquire: the registry with the path held by Loader l.
Acquire(locks, path, l) == [locks EXCEPT ![path] = l]

\* An access of Loader l to a local path, with who holds its lock at that time.
Access(l, path, kind, locks) ==
    [loader |-> l, path |-> path, kind |-> kind,
     holder |-> IF path \in DOMAIN locks THEN locks[path] ELSE NoLoader]

\* A return that leaves the guard of the path alive.
ReturnHolding(l, st, held) ==
    /\ ld' = [ld EXCEPT ![l].pc = "done", ![l].status = st]
    /\ UNCHANGED snapshot_locks

\* Return from the call: the scoped guard, if any, is released.
Return(l, st, held) ==
    /\ ld' = [ld EXCEPT ![l].pc = "done", ![l].status = st]
    /\ snapshot_locks' = IF held = <<>> THEN snapshot_locks
                         ELSE [snapshot_locks EXCEPT ![held[1]] = NoLoader]

\* The history after the cancellation probe of an operation, if it was made.
Probed(h, made, rpc) ==
    [h EXCEPT !.probe = IF ~made \/ rpc = "none" THEN "none"
                        ELSE IF rpc = "cancelled" THEN "cancelled" ELSE "passed",
              !.rpc = IF made THEN rpc ELSE "none"]

\* The locals of a call at its entry, with the Loader it is called on:
\* fs_type is the kind of _remote_fs ("NONE" while it is null), init_status
\* the Status init returned ("not called" when it was not called).
InitLocals(o, type, pairs) ==
    [op |-> o, pc |-> "begin", fs_type |-> type, src_to_dest_path |-> pairs,
     pair_idx |-> 1, remote_files |-> <<>>, local_files |-> <<>>, file_idx |-> 1,
     local_files_with_checksum |-> <<>>, report_counter |-> 0, finished_num |-> 0,
     tablet_id |-> 0, remote_tablet_id |-> 0, remote_keys |-> <<>>,
     tablet_files |-> <<>>, downloaded_tablet_ids |-> <<>>, status |-> "running",
     snapshot_path |-> <<>>, tablet |-> <<>>, overwrite |-> TRUE,
     remote_tablet_snapshots |-> <<>>, peer_md5 |-> TRUE,
     need_download_files |-> {},
     init_status |-> IF type = "NONE" THEN "not called" ELSE "OK"]

IdleLocals == [InitLocals("none", "NONE", <<>>) EXCEPT !.pc = "idle"]

\* What is remembered of a call to state its properties: the transfers made,
\* the local directory of the pair when its lock was taken, the files written
\* into it, the files whose unlink or hashing failed, the earlier run; for a
\* move the local filesystem and the reloads when the call began, and whether
\* a tablet lock was held by another actor when the locks were tried; whether
\* a failure was ignored; the filesystems when two concurrent calls began;
\* what became of the cancellation probe ("none" while it has not been made),
\* the outcome of the RPC of the last call of _report_every ("none" when the
\* call made no RPC); whether a link of move failed; whether a transfer was
\* started for a file that reach_capacity_limit refused; for a move whether
\* convert_rowset_ids was called and whether the tablet locks were tried.
InitHist ==
    [run |-> 1, transfers |-> 0, prev |-> <<>>, since_cancel |-> 0,
     probe |-> "none", rpc |-> "none", link_failed |-> FALSE,
     report_lost |-> FALSE, local0 |-> <<>>, written |-> {}, unlink_failed |-> {},
     hash_failed |-> {}, fs0 |-> <<>>, loaded0 |-> <<>>, contended |-> FALSE,
     ignored |-> FALSE, start |-> <<>>, over_limit |-> FALSE,
     converted |-> FALSE, tried_locks |-> FALSE]

(***************************************************************************)
(* Paths of the model.                                                      *)
(***************************************************************************)
\* Local snapshot directories .../<tablet_id>/<schema_hash>.
Snap1 == <<"", "snap", "1", "7">>
Snap2 == <<"", "snap", "2", "7">>
\* Remote tablet directories ..._<tablet_id>.
Rem1 == <<"bos://up/", "", "1">>
Rem2 == <<"bos://up/", "", "2">>

\* A second snapshot directory of tablet 1.
SnapB1 == <<"", "snapb", "1", "7">>

\* io::global_local_filesystem()->is_directory
IsDirectory(path) == path \in DOMAIN local

\* io::RemoteFileSystem::list of a directory that may not exist.
RemoteObjs(dir) == IF dir \in DOMAIN remote THEN remote[dir] ELSE <<>>

\* _get_existing_files_from_local: the names in the directory, in the order
\* the local filesystem lists them (taken as fixed for an unchanged directory).
GetExistingFilesFromLocal(path) ==
    IF IsDirectory(path) THEN SortNames(DOMAIN local[path]) ELSE <<>>

\* _check_local_snapshot_paths: the paths are examined in map order up to the
\* first that is no directory.  No snapshot lock is taken.
CheckLocalSnapshotPaths(paths) ==
    LET bad == {i \in 1..Len(paths) : ~IsDirectory(paths[i])}
        stop == IF bad = {} THEN Len(paths)
                ELSE CHOOSE i \in bad : \A j \in bad : i <= j
    IN [ok |-> bad = {}, read |-> {paths[i] : i \in 1..stop}]

\* A comparison that trusts the name and never looks at the checksum.
NeedUploadByNameOnly(remote_files_, local_file, md5sum) ==
    local_file \notin DOMAIN remote_files_

\* upload, lines 184-196: whether a local file has to be sent.
NeedUpload(remote_files_, local_file, md5sum) ==
    IF local_file \in DOMAIN remote_files_
    THEN md5sum # remote_files_[local_file].md5
    ELSE TRUE

(***************************************************************************)
(* SnapshotLoader::upload                                                   *)
(***************************************************************************)
\* Lines 126-138: the backend check, the cancellation probe, the validation
\* of the local paths.
UploadBegin(l) ==
    /\ ld[l].op = "upload" /\ ld[l].pc = "begin"
    /\ \E rpc \in RpcOutcomes :
        LET s == ld[l]
            probe == ReportEvery(0, 1, rpc)
            paths == [i \in 1..Len(s.src_to_dest_path) |-> s.src_to_dest_path[i].first]
            chk == CheckLocalSnapshotPaths(paths)
            reads == {Access(l, p, "is_directory", snapshot_locks) : p \in chk.read}
        IN /\ hist' = [hist EXCEPT ![l] = Probed(@, s.fs_type # "NONE", probe.rpc)]
           /\ IF s.fs_type = "NONE"
              THEN Return(l, "InternalError", <<>>) /\ last_access' = {}
              ELSE IF probe.st # "OK"
              THEN Return(l, probe.st, <<>>) /\ last_access' = {}
              ELSE IF ~chk.ok
              THEN Return(l, "RuntimeError", <<>>) /\ last_access' = reads
              ELSE IF Len(s.src_to_dest_path) = 0
              THEN Return(l, "OK", <<>>) /\ last_access' = reads
              ELSE /\ ld' = [ld EXCEPT ![l].pc = "acquire"]
                   /\ last_access' = reads
                   /\ UNCHANGED snapshot_locks
    /\ UNCHANGED <<local, remote, fe_cancelled, engine>>

\* Lines 146-156: the lock of the pair's local path, then its tablet id.
UploadAcquire(l) ==
    /\ ld[l].op = "upload" /\ ld[l].pc = "acquire"
    /\ LET s == ld[l]
           src_path == s.src_to_dest_path[s.pair_idx].first
           parsed == GetTabletIdAndSchemaHash(src_path)
       IN /\ Free(src_path)
          /\ IF ~parsed.ok
             THEN Return(l, "InternalError", <<>>)
             ELSE /\ ld' = [ld EXCEPT ![l].pc = "list", ![l].tablet_id = parsed.tablet_id]
                  /\ snapshot_locks' = Acquire(snapshot_locks, src_path, l)
    /\ last_access' = {}
    /\ UNCHANGED <<local, remote, fe_cancelled, engine, hist>>

\* Lines 158-169: the remote listing and the local listing.
UploadList(l) ==
    /\ ld[l].op = "upload" /\ ld[l].pc = "list"
    /\ LET s == ld[l]
           src_path == s.src_to_dest_path[s.pair_idx].first
           dest_path == s.src_to_dest_path[s.pair_idx].second
       IN \E listed \in BOOLEAN :
            IF ~listed
            THEN Return(l, "IOError", <<src_path>>) /\ last_access' = {}
            ELSE \E m \in ListWithChecksum(RemoteObjs(dest_path)) :
                   /\ ld' = [ld EXCEPT ![l].pc = "file",
                                       ![l].remote_files = m,
                                       ![l].local_files = GetExistingFilesFromLocal(src_path),
                                       ![l].file_idx = 1,
                                       ![l].local_files_with_checksum = <<>>]
                   /\ last_access' = {Access(l, src_path, "list", snapshot_locks)}
                   /\ UNCHANGED snapshot_locks
    /\ UNCHANGED <<local, remote, fe_cancelled, engine, hist>>

\* Lines 172-207: one local file: report, checksum, decide, send.
UploadFile(l) ==
    /\ ld[l].op = "upload" /\ ld[l].pc = "file"
    /\ ld[l].file_idx <= Len(ld[l].local_files)
    /\ LET s == ld[l]
           src_path == s.src_to_dest_path[s.pair_idx].first
           dest_path == s.src_to_dest_path[s.pair_idx].second
           local_file == s.local_files[s.file_idx]
       IN \E rpc \in RpcChoices(ReportThreshold, s.report_counter), hashed \in BOOLEAN,
             outcome \in UploadOutcomes(s.fs_type) :
            LET rep == ReportEvery(ReportThreshold, s.report_counter, rpc)
                content == local[src_path][local_file]
                md5sum == Md5(content)
                need_upload == NeedUpload(s.remote_files, local_file, md5sum)
                up == UploadWithChecksum(s.fs_type, RemoteObjs(dest_path), local_file,
                                         content, md5sum, outcome)
                counted == [s EXCEPT !.report_counter = rep.counter]
                noted == [hist[l] EXCEPT
                            !.report_lost = @ \/ (fe_cancelled /\ rep.rpc \in {"fail", "other"}),
                            !.rpc = rep.rpc]
            IN IF rep.st # "OK"
               THEN /\ Return(l, rep.st, <<src_path>>)
                    /\ last_access' = {}
                    /\ hist' = [hist EXCEPT ![l].rpc = rep.rpc]
                    /\ UNCHANGED remote
               ELSE IF ~hashed
               THEN /\ ld' = [ld EXCEPT ![l] = [counted EXCEPT !.pc = "done",
                                                               !.status = "IOError"]]
                    /\ snapshot_locks' = [snapshot_locks EXCEPT ![src_path] = NoLoader]
                    /\ last_access' = {Access(l, src_path, "md5sum", snapshot_locks)}
                    /\ hist' = [hist EXCEPT ![l] = noted]
                    /\ UNCHANGED remote
               ELSE IF ~need_upload
               THEN /\ ld' = [ld EXCEPT ![l] =
                                [counted EXCEPT !.file_idx = @ + 1,
                                                !.local_files_with_checksum =
                                                    Append(@, local_file \o <<md5sum>>)]]
                    /\ last_access' = {Access(l, src_path, "md5sum", snapshot_locks)}
                    /\ hist' = [hist EXCEPT ![l] = noted]
                    /\ UNCHANGED <<remote, snapshot_locks>>
               ELSE /\ remote' = (dest_path :> up.objs) @@ remote
                    /\ ld' = [ld EXCEPT ![l] =
                                IF up.ok
                                THEN [counted EXCEPT !.file_idx = @ + 1,
                                                     !.local_files_with_checksum =
                                                         Append(@, local_file \o <<md5sum>>)]
                                ELSE [counted EXCEPT !.pc = "done", !.status = "IOError"]]
                    /\ snapshot_locks' = IF up.ok THEN snapshot_locks
                                         ELSE [snapshot_locks EXCEPT ![src_path] = NoLoader]
                    /\ last_access' = {Access(l, src_path, "md5sum", snapshot_locks),
                                       Access(l, src_path, "read", snapshot_locks)}
                    /\ hist' = [hist EXCEPT ![l] =
                                  [noted EXCEPT !.transfers = @ + 1,
                                                !.since_cancel =
                                                    IF fe_cancelled THEN @ + 1 ELSE @]]
    /\ UNCHANGED <<local, fe_cancelled, engine>>

\* An insertion that replaces the entry of a key the map holds already.
InsertOrAssign(map, key, value) ==
    (key :> value) @@ map

\* std::map::emplace: a key the map holds already keeps its entry.
Emplace(map, key, value) ==
    IF key \in DOMAIN map THEN map ELSE (key :> value) @@ map

\* Lines 209-213: the pair's manifest entry; the guard goes out of scope.
UploadPairEnd(l) ==
    /\ ld[l].op = "upload" /\ ld[l].pc = "file"
    /\ ld[l].file_idx > Len(ld[l].local_files)
    /\ LET s == ld[l]
           src_path == s.src_to_dest_path[s.pair_idx].first
           emplaced == Emplace(s.tablet_files, s.tablet_id, s.local_files_with_checksum)
           last == s.pair_idx = Len(s.src_to_dest_path)
       IN /\ ld' = [ld EXCEPT ![l] =
                      [s EXCEPT !.tablet_files = emplaced,
                                !.finished_num = @ + 1,
                                !.pair_idx = @ + 1,
                                !.pc = IF last THEN "done" ELSE "acquire",
                                !.status = IF last THEN "OK" ELSE @]]
          /\ snapshot_locks' = [snapshot_locks EXCEPT ![src_path] = NoLoader]
    /\ last_access' = {}
    /\ UNCHANGED <<local, remote, fe_cancelled, engine, hist>>

\* The caller invokes upload again with the same arguments and a fresh
\* output map.
UploadAgain(l) ==
    /\ ld[l].op = "upload" /\ ld[l].pc = "done"
    /\ hist[l].run < MaxRuns
    /\ ld' = [ld EXCEPT ![l] = InitLocals("upload", ld[l].fs_type, ld[l].src_to_dest_path)]
    /\ hist' = [hist EXCEPT ![l] =
                  [InitHist EXCEPT !.run = hist[l].run + 1,
                                   !.prev = <<[status |-> ld[l].status,
                                               tablet_files |-> ld[l].tablet_files,
                                               transfers |-> hist[l].transfers,
                                               remote |-> remote]>>]]
    /\ last_access' = {}
    /\ UNCHANGED <<local, remote, snapshot_locks, fe_cancelled, engine>>

(***************************************************************************)
(* SnapshotLoader::download                                                 *)
(***************************************************************************)
\* std::vector::erase(std::find(...)): without the first occurrence of x.
RemoveFirst(seq, x) ==
    IF x \notin SeqToSet(seq) THEN seq
    ELSE LET i == CHOOSE i \in 1..Len(seq) :
                    seq[i] = x /\ \A j \in 1..(i - 1) : seq[j] # x
         IN SubSeq(seq, 1, i - 1) \o SubSeq(seq, i + 1, Len(seq))

\* A directory without some of its files.
Without(dir, names) == [n \in (DOMAIN dir) \ names |-> dir[n]]

\* A comparison the wrong way round: what matches is fetched again.
NeedDownloadInverted(local_files_, remote_file, file_stat, hashed, local_md5sum) ==
    IF remote_file \notin SeqToSet(local_files_) THEN TRUE
    ELSE IF EndWith(remote_file, "hdr") THEN TRUE
    ELSE IF ~hashed THEN TRUE
    ELSE file_stat.md5 = local_md5sum

\* download, lines 291-320: whether a remote file has to be fetched.
NeedDownload(local_files_, remote_file, file_stat, hashed, local_md5sum) ==
    IF remote_file \notin SeqToSet(local_files_) THEN TRUE
    ELSE IF EndWith(remote_file, "hdr") THEN TRUE
    ELSE IF ~hashed THEN TRUE
    ELSE file_stat.md5 # local_md5sum

\* No verification of what was fetched.
Md5VerifiedUnchecked(downloaded_md5sum, file_stat) == TRUE

\* download, line 356: the checksum of the fetched file against the listing.
Md5Verified(downloaded_md5sum, file_stat) == downloaded_md5sum = file_stat.md5

\* A prune loop that leaves every header alone.
PruneDataOnly(local_files_, remote_files_, remote_tablet_id) ==
    {f \in SeqToSet(local_files_) :
        LET renamed == ReplaceTabletId(f, remote_tablet_id)
        IN renamed.ok /\ ~EndWith(f, "hdr") /\ renamed.name \notin DOMAIN remote_files_}

\* download, lines 371-386: the local files the prune loop tries to unlink.
PruneCandidates(local_files_, remote_files_, remote_tablet_id) ==
    {f \in SeqToSet(local_files_) :
        LET renamed == ReplaceTabletId(f, remote_tablet_id)
        IN renamed.ok /\ renamed.name \notin DOMAIN remote_files_}

\* Lines 226-239: the backend check, the cancellation probe, the validation
\* of the local paths.
DownloadBegin(l) ==
    /\ ld[l].op = "download" /\ ld[l].pc = "begin"
    /\ \E rpc \in RpcOutcomes :
        LET s == ld[l]
            probe == ReportEvery(0, 1, rpc)
            paths == [i \in 1..Len(s.src_to_dest_path) |-> s.src_to_dest_path[i].second]
            chk == CheckLocalSnapshotPaths(paths)
            reads == {Access(l, p, "is_directory", snapshot_locks) : p \in chk.read}
        IN /\ hist' = [hist EXCEPT ![l] = Probed(@, s.fs_type # "NONE", probe.rpc)]
           /\ IF s.fs_type = "NONE"
              THEN Return(l, "InternalError", <<>>) /\ last_access' = {}
              ELSE IF probe.st # "OK"
              THEN Return(l, probe.st, <<>>) /\ last_access' = {}
              ELSE IF ~chk.ok
              THEN Return(l, "RuntimeError", <<>>) /\ last_access' = reads
              ELSE IF Len(s.src_to_dest_path) = 0
              THEN Return(l, "OK", <<>>) /\ last_access' = reads
              ELSE /\ ld' = [ld EXCEPT ![l].pc = "acquire"]
                   /\ last_access' = reads
                   /\ UNCHANGED snapshot_locks
    /\ UNCHANGED <<local, remote, fe_cancelled, engine>>

\* Lines 245-262: the lock of the pair's local path, the two tablet ids.
DownloadAcquire(l) ==
    /\ ld[l].op = "download" /\ ld[l].pc = "acquire"
    /\ LET s == ld[l]
           remote_path == s.src_to_dest_path[s.pair_idx].first
           local_path == s.src_to_dest_path[s.pair_idx].second
           parsed == GetTabletIdAndSchemaHash(local_path)
           rparsed == GetTabletIdFromRemotePath(remote_path)
           pushed == Append(s.downloaded_tablet_ids, parsed.tablet_id)
       IN /\ Free(local_path)
          /\ IF ~parsed.ok
             THEN Return(l, "InternalError", <<>>)
             ELSE IF ~rparsed.ok
             THEN /\ ld' = [ld EXCEPT ![l].pc = "done", ![l].status = "InternalError",
                                      ![l].downloaded_tablet_ids = pushed]
                  /\ UNCHANGED snapshot_locks
             ELSE /\ ld' = [ld EXCEPT ![l].pc = "list",
                                      ![l].tablet_id = parsed.tablet_id,
                                      ![l].remote_tablet_id = rparsed.tablet_id,
                                      ![l].downloaded_tablet_ids = pushed]
                  /\ snapshot_locks' = Acquire(snapshot_locks, local_path, l)
          /\ hist' = [hist EXCEPT ![l].local0 = IF IsDirectory(local_path)
                                                THEN local[local_path] ELSE <<>>,
                                  ![l].written = {}, ![l].unlink_failed = {},
                                  ![l].hash_failed = {}]
    /\ last_access' = {}
    /\ UNCHANGED <<local, remote, fe_cancelled, engine>>

\* Lines 264-285: the local listing, the remote listing, the live tablet.
DownloadList(l) ==
    /\ ld[l].op = "download" /\ ld[l].pc = "list"
    /\ LET s == ld[l]
           remote_path == s.src_to_dest_path[s.pair_idx].first
           local_path == s.src_to_dest_path[s.pair_idx].second
       IN /\ \E listed \in BOOLEAN :
            IF ~listed
            THEN Return(l, "IOError", <<local_path>>)
            ELSE \E m \in ListWithChecksum(RemoteObjs(remote_path)) :
                   IF DOMAIN m = {} \/ s.tablet_id \notin engine.tablets
                   THEN /\ ld' = [ld EXCEPT ![l].pc = "done",
                                            ![l].status = "InternalError",
                                            ![l].remote_files = m]
                        /\ snapshot_locks' = [snapshot_locks EXCEPT ![local_path] = NoLoader]
                   ELSE /\ ld' = [ld EXCEPT ![l].pc = "file",
                                            ![l].remote_files = m,
                                            ![l].remote_keys = SortNames(DOMAIN m),
                                            ![l].local_files =
                                                GetExistingFilesFromLocal(local_path),
                                            ![l].file_idx = 1]
                        /\ UNCHANGED snapshot_locks
          /\ last_access' = {Access(l, local_path, "list", snapshot_locks)}
    /\ UNCHANGED <<local, remote, fe_cancelled, engine, hist>>

\* A transfer that does not look at the answer of the data dir.
CapacityUnchecked(full) == FALSE

\* Lines 337-342 and 574-579: the test of the answer of
\* DataDir::reach_capacity_limit for the size of the file, `full`.
CapacityExceeded(full) == full

\* Lines 287-368: one remote file: report, decide, check the capacity, fetch,
\* verify the checksum.
DownloadFile(l) ==
    /\ ld[l].op = "download" /\ ld[l].pc = "file"
    /\ ld[l].file_idx <= Len(ld[l].remote_keys)
    /\ LET s == ld[l]
           remote_path == s.src_to_dest_path[s.pair_idx].first
           local_path == s.src_to_dest_path[s.pair_idx].second
           remote_file == s.remote_keys[s.file_idx]
           file_stat == s.remote_files[remote_file]
           found == remote_file \in SeqToSet(s.local_files)
           hashing == found /\ ~EndWith(remote_file, "hdr")
       IN \E rpc \in RpcChoices(ReportThreshold, s.report_counter),
             hashed \in IF hashing THEN BOOLEAN ELSE {TRUE},
             full \in BOOLEAN, outcome \in {"ok", "fail", "corrupt"}, rehashed \in BOOLEAN :
            LET rep == ReportEvery(ReportThreshold, s.report_counter, rpc)
                local_md5sum == IF remote_file \in DOMAIN local[local_path]
                                THEN Md5(local[local_path][remote_file]) ELSE ""
                need_download == NeedDownload(s.local_files, remote_file, file_stat,
                                              hashed, local_md5sum)
                renamed == ReplaceTabletId(remote_file, s.tablet_id)
                full_remote_file == remote_file \o <<file_stat.md5>>
                fetched == IF outcome = "corrupt" THEN Corrupt
                           ELSE RemoteObjs(remote_path)[full_remote_file]
                counted == [s EXCEPT !.report_counter = rep.counter]
                erased == [counted EXCEPT !.local_files = RemoveFirst(@, remote_file)]
                noted == [hist[l] EXCEPT
                            !.report_lost = @ \/ (fe_cancelled /\ rep.rpc \in {"fail", "other"}),
                            !.rpc = rep.rpc,
                            !.hash_failed = IF hashing /\ ~hashed
                                            THEN @ \cup {remote_file} ELSE @]
                moved == [noted EXCEPT !.transfers = @ + 1,
                                       !.over_limit = @ \/ full,
                                       !.since_cancel = IF fe_cancelled THEN @ + 1 ELSE @]
                probes == IF hashing
                          THEN {Access(l, local_path, "md5sum", snapshot_locks)} ELSE {}
                stop(st, rec) ==
                    /\ ld' = [ld EXCEPT ![l] = [rec EXCEPT !.pc = "done", !.status = st]]
                    /\ snapshot_locks' = [snapshot_locks EXCEPT ![local_path] = NoLoader]
            IN IF rep.st # "OK"
               THEN /\ stop(rep.st, s)
                    /\ last_access' = {}
                    /\ hist' = [hist EXCEPT ![l].rpc = rep.rpc]
                    /\ UNCHANGED local
               ELSE IF ~need_download
               THEN /\ ld' = [ld EXCEPT ![l] = [counted EXCEPT !.file_idx = @ + 1]]
                    /\ last_access' = probes
                    /\ hist' = [hist EXCEPT ![l] = noted]
                    /\ UNCHANGED <<local, snapshot_locks>>
               ELSE IF ~renamed.ok
               THEN /\ stop("InternalError", counted)
                    /\ last_access' = probes
                    /\ hist' = [hist EXCEPT ![l] = noted]
                    /\ UNCHANGED local
               ELSE IF CapacityExceeded(full)
               THEN /\ stop("ExceededLimit", counted)
                    /\ last_access' = probes
                    /\ hist' = [hist EXCEPT ![l] = noted]
                    /\ UNCHANGED local
               ELSE IF outcome = "fail"
               THEN /\ stop("IOError", erased)
                    /\ last_access' = probes
                    /\ hist' = [hist EXCEPT ![l] = moved]
                    /\ UNCHANGED local
               ELSE /\ local' = [local EXCEPT ![local_path] = (renamed.name :> fetched) @@ @]
                    /\ last_access' = probes \cup
                                      {Access(l, local_path, "write", snapshot_locks),
                                       Access(l, local_path, "md5sum", snapshot_locks)}
                    /\ hist' = [hist EXCEPT ![l] =
                                  [moved EXCEPT !.written = @ \cup {renamed.name}]]
                    /\ IF ~rehashed
                       THEN stop("IOError", erased)
                       ELSE IF ~Md5Verified(Md5(fetched), file_stat)
                       THEN stop("InternalError", erased)
                       ELSE /\ ld' = [ld EXCEPT ![l] =
                                        [erased EXCEPT !.file_idx = @ + 1,
                                                       !.local_files =
                                                           Append(@, renamed.name)]]
                            /\ UNCHANGED snapshot_locks
    /\ UNCHANGED <<remote, fe_cancelled, engine>>

\* Lines 370-398: the prune loop, in which a failing unlink is ignored, and
\* the end of the pair; the guard goes out of scope.
DownloadPrune(l) ==
    /\ ld[l].op = "download" /\ ld[l].pc = "file"
    /\ ld[l].file_idx > Len(ld[l].remote_keys)
    /\ LET s == ld[l]
           local_path == s.src_to_dest_path[s.pair_idx].second
           doomed == PruneCandidates(s.local_files, s.remote_files, s.remote_tablet_id)
           last == s.pair_idx = Len(s.src_to_dest_path)
       IN \E failed \in SUBSET doomed :
            /\ local' = [local EXCEPT ![local_path] = Without(@, doomed \ failed)]
            /\ hist' = [hist EXCEPT ![l].unlink_failed = failed,
                                    ![l].ignored = @ \/ failed # {}]
            /\ ld' = [ld EXCEPT ![l] =
                        [s EXCEPT !.finished_num = @ + 1,
                                  !.pair_idx = IF last THEN @ ELSE @ + 1,
                                  !.pc = IF last THEN "done" ELSE "acquire",
                                  !.status = IF last THEN "OK" ELSE @]]
            /\ snapshot_locks' = [snapshot_locks EXCEPT ![local_path] = NoLoader]
            /\ last_access' = IF doomed = {} THEN {}
                              ELSE {Access(l, local_path, "remove", snapshot_locks)}
    /\ UNCHANGED <<remote, fe_cancelled, engine>>

(***************************************************************************)
(* SnapshotLoader::remote_http_download                                     *)
(*                                                                          *)
(* The snapshot directory of the peer is remote[remote_snapshot_path]: file *)
(* name -> content.  std::unordered_map iterates in an order of its own:    *)
(* the files to download are taken in any order.                            *)
(***************************************************************************)
\* The answer of the peer to a HEAD with acquire_md5: a peer of an older
\* version sends no md5.
RemoteFileStatOf(content, peer_md5) ==
    [md5 |-> IF peer_md5 THEN Md5(content) ELSE "", size |-> Size(content)]

\* Lines 527-548: whether a file of the peer has to be fetched.
HttpNeedDownload(local_files_, remote_file, remote_filestat) ==
    IF remote_file \notin DOMAIN local_files_ THEN TRUE
    ELSE IF EndWith(remote_file, "hdr") THEN TRUE
    ELSE IF local_files_[remote_file].size # remote_filestat.size THEN TRUE
    ELSE local_files_[remote_file].md5 # remote_filestat.md5

\* Lines 412-414: the cancellation probe.
HttpBegin(l) ==
    /\ ld[l].op = "remote_http_download" /\ ld[l].pc = "begin"
    /\ \E rpc \in RpcOutcomes :
        LET probe == ReportEvery(0, 1, rpc)
        IN /\ hist' = [hist EXCEPT ![l] = Probed(@, TRUE, probe.rpc)]
           /\ IF probe.st # "OK"
              THEN Return(l, probe.st, <<>>)
              ELSE IF Len(ld[l].remote_tablet_snapshots) = 0
              THEN Return(l, "OK", <<>>)
              ELSE ld' = [ld EXCEPT ![l].pc = "acquire"] /\ UNCHANGED snapshot_locks
    /\ last_access' = {}
    /\ UNCHANGED <<local, remote, fe_cancelled, engine>>

\* Lines 426-465: the lock of the local path, the directory check, the size
\* and the md5 of every local file.
HttpAcquire(l) ==
    /\ ld[l].op = "remote_http_download" /\ ld[l].pc = "acquire"
    /\ LET s == ld[l]
           snapshot == s.remote_tablet_snapshots[s.pair_idx]
           local_path == snapshot.local_snapshot_path
           held == Acquire(snapshot_locks, local_path, l)
       IN /\ Free(local_path)
          /\ \E checked \in BOOLEAN, stated \in BOOLEAN :
               IF ~checked
               THEN /\ Return(l, "IOError", <<>>)
                    /\ last_access' = {Access(l, local_path, "is_directory", held)}
               ELSE IF ~IsDirectory(local_path)
               THEN /\ Return(l, "RuntimeError", <<>>)
                    /\ last_access' = {Access(l, local_path, "is_directory", held)}
               ELSE IF ~stated
               THEN /\ Return(l, "IOError", <<>>)
                    /\ last_access' = {Access(l, local_path, "is_directory", held),
                                       Access(l, local_path, "list", held),
                                       Access(l, local_path, "md5sum", held)}
               ELSE /\ ld' = [ld EXCEPT
                                ![l].pc = "list",
                                ![l].local_files =
                                    [f \in DOMAIN local[local_path] |->
                                        [size |-> Size(local[local_path][f]),
                                         md5 |-> Md5(local[local_path][f])]],
                                ![l].tablet_id = snapshot.local_tablet_id,
                                ![l].remote_tablet_id = snapshot.remote_tablet_id]
                    /\ snapshot_locks' = held
                    /\ last_access' = {Access(l, local_path, "is_directory", held),
                                       Access(l, local_path, "list", held),
                                       Access(l, local_path, "md5sum", held)}
          /\ hist' = [hist EXCEPT ![l].local0 = IF IsDirectory(local_path)
                                                THEN local[local_path] ELSE <<>>,
                                  ![l].written = {}, ![l].unlink_failed = {},
                                  ![l].hash_failed = {}]
    /\ UNCHANGED <<local, remote, fe_cancelled, engine>>

\* Lines 467-520: the file list of the peer and the HEAD of every file.
HttpList(l) ==
    /\ ld[l].op = "remote_http_download" /\ ld[l].pc = "list"
    /\ LET s == ld[l]
           snapshot == s.remote_tablet_snapshots[s.pair_idx]
           objs == RemoteObjs(snapshot.remote_snapshot_path)
       IN \E listed \in BOOLEAN :
            IF ~listed
            THEN Return(l, "HttpError", <<snapshot.local_snapshot_path>>)
            ELSE /\ ld' = [ld EXCEPT
                             ![l].pc = "compare",
                             ![l].remote_files =
                                 [f \in DOMAIN objs |-> RemoteFileStatOf(objs[f], s.peer_md5)]]
                 /\ UNCHANGED snapshot_locks
    /\ last_access' = {}
    /\ UNCHANGED <<local, remote, fe_cancelled, engine, hist>>

\* Lines 522-563: the report, once for the tablet, the files to download,
\* the live tablet.
HttpCompare(l) ==
    /\ ld[l].op = "remote_http_download" /\ ld[l].pc = "compare"
    /\ LET s == ld[l]
           snapshot == s.remote_tablet_snapshots[s.pair_idx]
       IN \E rpc \in RpcChoices(ReportThreshold, s.report_counter) :
            LET rep == ReportEvery(ReportThreshold, s.report_counter, rpc)
                counted == [s EXCEPT !.report_counter = rep.counter]
            IN /\ IF rep.st # "OK"
                  THEN Return(l, rep.st, <<snapshot.local_snapshot_path>>)
                  ELSE IF s.tablet_id \notin engine.tablets
                  THEN /\ ld' = [ld EXCEPT ![l] = [counted EXCEPT !.pc = "done",
                                                                  !.status = "InternalError"]]
                       /\ snapshot_locks' = [snapshot_locks EXCEPT
                                               ![snapshot.local_snapshot_path] = NoLoader]
                  ELSE /\ ld' = [ld EXCEPT ![l] =
                                   [counted EXCEPT
                                      !.pc = "file",
                                      !.need_download_files =
                                          {f \in DOMAIN s.remote_files :
                                              HttpNeedDownload(s.local_files, f,
                                                               s.remote_files[f])}]]
                       /\ UNCHANGED snapshot_locks
               /\ hist' = [hist EXCEPT ![l].report_lost =
                                          @ \/ (fe_cancelled /\ rep.rpc \in {"fail", "other"}),
                                       ![l].rpc = rep.rpc]
    /\ last_access' = {}
    /\ UNCHANGED <<local, remote, fe_cancelled, engine>>

\* Lines 570-646: one file to download: the capacity, the local name, the
\* download with its retries, the checks of the length and of the md5.
HttpFile(l) ==
    /\ ld[l].op = "remote_http_download" /\ ld[l].pc = "file"
    /\ ld[l].need_download_files # {}
    /\ LET s == ld[l]
           snapshot == s.remote_tablet_snapshots[s.pair_idx]
           local_path == snapshot.local_snapshot_path
       IN \E filename \in s.need_download_files, full \in BOOLEAN,
             outcome \in {"ok", "fail", "corrupt"}, allowed \in BOOLEAN :
            LET remote_filestat == s.remote_files[filename]
                renamed == ReplaceTabletId(filename, s.tablet_id)
                fetched == IF outcome = "corrupt" THEN Corrupt
                           ELSE RemoteObjs(snapshot.remote_snapshot_path)[filename]
                moved == [hist[l] EXCEPT !.transfers = @ + 1,
                                         !.over_limit = @ \/ full,
                                         !.since_cancel = IF fe_cancelled THEN @ + 1 ELSE @]
                stop(st) ==
                    /\ ld' = [ld EXCEPT ![l].pc = "done", ![l].status = st]
                    /\ snapshot_locks' = [snapshot_locks EXCEPT ![local_path] = NoLoader]
            IN IF CapacityExceeded(full)
               THEN stop("ExceededLimit") /\ last_access' = {} /\ UNCHANGED <<local, hist>>
               ELSE IF ~renamed.ok
               THEN stop("InternalError") /\ last_access' = {} /\ UNCHANGED <<local, hist>>
               ELSE IF outcome = "fail"
               THEN /\ stop("HttpError")
                    /\ last_access' = {}
                    /\ hist' = [hist EXCEPT ![l] = moved]
                    /\ UNCHANGED local
               ELSE /\ local' = [local EXCEPT ![local_path] = (renamed.name :> fetched) @@ @]
                    /\ last_access' = {Access(l, local_path, "write", snapshot_locks)}
                    /\ hist' = [hist EXCEPT ![l] =
                                  [moved EXCEPT !.written = @ \cup {renamed.name}]]
                    /\ IF Size(fetched) # remote_filestat.size
                       THEN stop("InternalError")
                       ELSE IF remote_filestat.md5 # "" /\ Md5(fetched) # remote_filestat.md5
                       THEN stop("RuntimeError")
                       ELSE IF ~allowed
                       THEN stop("IOError")
                       ELSE /\ ld' = [ld EXCEPT
                                        ![l].need_download_files = @ \ {filename},
                                        ![l].local_files =
                                            (filename :> [size |-> remote_filestat.size,
                                                          md5 |-> remote_filestat.md5]) @@ @]
                            /\ UNCHANGED snapshot_locks
    /\ UNCHANGED <<remote, fe_cancelled, engine>>

\* Lines 660-689: the prune loop over local_files and the end of the tablet;
\* the guard goes out of scope.
HttpPrune(l) ==
    /\ ld[l].op = "remote_http_download" /\ ld[l].pc = "file"
    /\ ld[l].need_download_files = {}
    /\ LET s == ld[l]
           local_path == s.remote_tablet_snapshots[s.pair_idx].local_snapshot_path
           doomed == PruneCandidates(SortNames(DOMAIN s.local_files), s.remote_files,
                                     s.remote_tablet_id)
           last == s.pair_idx = Len(s.remote_tablet_snapshots)
       IN \E failed \in SUBSET doomed :
            /\ local' = [local EXCEPT ![local_path] = Without(@, doomed \ failed)]
            /\ hist' = [hist EXCEPT ![l].unlink_failed = failed,
                                    ![l].ignored = @ \/ failed # {}]
            /\ ld' = [ld EXCEPT ![l] =
                        [s EXCEPT !.finished_num = @ + 1,
                                  !.pair_idx = IF last THEN @ ELSE @ + 1,
                                  !.pc = IF last THEN "done" ELSE "acquire",
                                  !.status = IF last THEN "OK" ELSE @]]
            /\ snapshot_locks' = [snapshot_locks EXCEPT ![local_path] = NoLoader]
            /\ last_access' = IF doomed = {} THEN {}
                              ELSE {Access(l, local_path, "remove", snapshot_locks)}
    /\ UNCHANGED <<remote, fe_cancelled, engine>>

(***************************************************************************)
(* SnapshotLoader::move                                                     *)
(*                                                                          *)
(* A hardlink is kept as the name of the file it was linked from: the entry  *)
(* shares the inode of that file.                                           *)
(***************************************************************************)
\* Lines 772-777: the locks of a tablet that move tries.
TabletLocks ==
    {"migration", "base_compaction", "cumulative_compaction", "cold_compaction",
     "build_inverted_index", "meta_store"}

\* Live tablet directories <store>/<tablet_id>/<schema_hash>.
Tab1 == <<"", "data", "1", "7">>

\* std::filesystem::exists
Exists(path) == path \in DOMAIN local

\* SnapshotManager::convert_rowset_ids: the rowset ids and the tablet id in
\* the rowset meta of the snapshot's header are rewritten in place.
ConvertRowsetIds(dir) ==
    [f \in DOMAIN dir |-> IF EndWith(f, "hdr") THEN 5 ELSE dir[f]]

\* The entry link() creates: a second name of the file `file` of `path`.
LinkTo(path, file) == [link_to |-> <<path, file>>]

\* A check that forgets the lock taken last.
OwnsAllButMetaStore(locks, l) ==
    \A k \in TabletLocks \ {"meta_store"} : locks[k] \in {NoLoader, l}

\* Lines 772-780: every std::try_to_lock succeeded.
OwnsAllLocks(locks, l) == \A k \in TabletLocks : locks[k] \in {NoLoader, l}

\* A promotion that leaves the old files where they are.
KeepTabletDir(dir) == dir

\* Lines 796-799: remove_all and create_directory leave an empty directory.
RemoveAllAndCreate(dir) == <<>>

\* Lines 811-825: link() gives each file of the snapshot a second name in the
\* tablet directory.
LinkFiles(tablet_dir, snapshot_path, files) ==
    [f \in files |-> LinkTo(snapshot_path, f)] @@ tablet_dir

\* A failure of link() after which nothing is cleaned.
KeepLinked(tablet_dir, linked_files, failed) == tablet_dir

\* Lines 819-822: remove() of every file linked so far; its result is
\* ignored, so the links whose remove failed stay.
RemoveLinked(tablet_dir, linked_files, failed) ==
    Without(tablet_dir, linked_files \ failed)

\* The guard of the snapshot path and the tablet locks move owns go out of
\* scope.
MoveReturn(l, st) ==
    LET s == ld[l]
    IN /\ ld' = [ld EXCEPT ![l].pc = "done", ![l].status = st]
       /\ snapshot_locks' = [snapshot_locks EXCEPT ![s.snapshot_path] = NoLoader]

\* Locks that stay with the move after it returned.
KeepTabletLocks(locks, l) == locks

\* Lines 772-777: the std::unique_lock objects go out of scope.
ReleaseTabletLocks(locks, l) == [k \in TabletLocks |-> IF locks[k] = l THEN NoLoader ELSE locks[k]]

\* Lines 703-704: the lock of the snapshot path.
MoveAcquire(l) ==
    /\ ld[l].op = "move" /\ ld[l].pc = "begin"
    /\ Free(ld[l].snapshot_path)
    /\ snapshot_locks' = Acquire(snapshot_locks, ld[l].snapshot_path, l)
    /\ ld' = [ld EXCEPT ![l].pc = "validate"]
    /\ hist' = [hist EXCEPT
                  ![l].fs0 = local, ![l].loaded0 = engine.loaded]
    /\ last_access' = {}
    /\ UNCHANGED <<local, remote, fe_cancelled, engine>>

\* A validation that does not compare the two paths.
MovePathsValidUncompared(snapshot_path, tablet) ==
    LET snapshot == GetTabletIdAndSchemaHash(snapshot_path)
        parsed == GetTabletIdAndSchemaHash(tablet.tablet_path)
    IN /\ snapshot.ok /\ parsed.ok
       /\ tablet.store_path \in engine.stores
       /\ Exists(tablet.tablet_path)
       /\ Exists(snapshot_path)

\* Lines 713-752: both paths parse, they name the same tablet id and schema
\* hash, the store of the tablet's data dir is known, both directories exist.
MovePathsValid(snapshot_path, tablet) ==
    LET snapshot == GetTabletIdAndSchemaHash(snapshot_path)
        parsed == GetTabletIdAndSchemaHash(tablet.tablet_path)
    IN /\ snapshot.ok /\ parsed.ok
       /\ parsed.tablet_id = snapshot.tablet_id
       /\ parsed.schema_hash = snapshot.schema_hash
       /\ tablet.store_path \in engine.stores
       /\ Exists(tablet.tablet_path)
       /\ Exists(snapshot_path)

\* Lines 713-768: the two paths, the store, the two directories, the rewrite
\* of the rowset ids, the overwrite flag.
MoveValidate(l) ==
    /\ ld[l].op = "move" /\ ld[l].pc = "validate"
    /\ LET s == ld[l]
           snapshot == GetTabletIdAndSchemaHash(s.snapshot_path)
           tablet == GetTabletIdAndSchemaHash(s.tablet.tablet_path)
       IN \E converted \in BOOLEAN :
            IF ~MovePathsValid(s.snapshot_path, s.tablet)
            THEN /\ MoveReturn(l, "InternalError")
                 /\ last_access' = {Access(l, s.snapshot_path, "exists", snapshot_locks)}
                 /\ UNCHANGED <<local, hist>>
            ELSE /\ last_access' = {Access(l, s.snapshot_path, "exists", snapshot_locks),
                                    Access(l, s.snapshot_path, "write", snapshot_locks)}
                 /\ hist' = [hist EXCEPT ![l].converted = TRUE]
                 /\ IF ~converted
                    THEN MoveReturn(l, "InternalError") /\ UNCHANGED local
                    ELSE /\ local' = [local EXCEPT ![s.snapshot_path] = ConvertRowsetIds(@)]
                         /\ IF ~s.overwrite
                            THEN MoveReturn(l, "FatalError")
                            ELSE /\ ld' = [ld EXCEPT ![l].pc = "locks",
                                                     ![l].tablet_id = tablet.tablet_id]
                                 /\ UNCHANGED snapshot_locks
    /\ UNCHANGED <<remote, fe_cancelled, engine>>

\* Lines 772-786: the six try-locks.
MoveLocks(l) ==
    /\ ld[l].op = "move" /\ ld[l].pc = "locks"
    /\ LET s == ld[l]
           locks == engine.tablet_locks[s.tablet.id]
       IN /\ hist' = [hist EXCEPT ![l].contended = \E k \in TabletLocks : locks[k] # NoLoader,
                                  ![l].tried_locks = TRUE]
          /\ IF ~OwnsAllLocks(locks, l)
             THEN MoveReturn(l, "ObtainLockFailed") /\ UNCHANGED engine
             ELSE /\ engine' = [engine EXCEPT
                                  !.tablet_locks[s.tablet.id] = [k \in TabletLocks |->
                                      IF locks[k] = NoLoader THEN l ELSE locks[k]]]
                  /\ ld' = [ld EXCEPT ![l].pc = "promote"]
                  /\ UNCHANGED snapshot_locks
    /\ last_access' = {}
    /\ UNCHANGED <<local, remote, fe_cancelled>>

\* A reload that does not ask for the restore mode.
LoadTabletFromDirUnrestored(loaded, tablet_id, tablet_path, restore) ==
    Append(loaded, [tablet_id |-> tablet_id, path |-> tablet_path, restore |-> FALSE])

\* Lines 833-834: the call of TabletManager::load_tablet_from_dir, kept as the
\* record of its arguments in the order of the calls.
LoadTabletFromDir(loaded, tablet_id, tablet_path, restore) ==
    Append(loaded, [tablet_id |-> tablet_id, path |-> tablet_path, restore |-> restore])

\* Lines 788-843: the listing of the snapshot, the removal of the tablet
\* directory, the links, the reload of the header.
MovePromote(l) ==
    /\ ld[l].op = "move" /\ ld[l].pc = "promote"
    /\ LET s == ld[l]
           tablet_path == s.tablet.tablet_path
           snapshot_files == GetExistingFilesFromLocal(s.snapshot_path)
           n == Len(snapshot_files)
           released == [engine EXCEPT !.tablet_locks[s.tablet.id] = ReleaseTabletLocks(@, l)]
           emptied == [local EXCEPT ![tablet_path] = RemoveAllAndCreate(@)]
           gone == tablet_path = s.snapshot_path
       IN \E listed \in BOOLEAN, removed \in BOOLEAN,
             linked \in 0..n, reloaded \in BOOLEAN :
            IF ~listed
            THEN /\ MoveReturn(l, "IOError")
                 /\ engine' = released
                 /\ last_access' = {}
                 /\ UNCHANGED <<local, hist>>
            ELSE IF ~removed
            THEN /\ \E left \in SUBSET DOMAIN local[tablet_path] :
                       local' = [local EXCEPT ![tablet_path] = Without(@, left)]
                 /\ MoveReturn(l, "InternalError")
                 /\ engine' = released
                 /\ last_access' = {Access(l, s.snapshot_path, "list", snapshot_locks)}
                 /\ UNCHANGED hist
            ELSE IF linked < n \/ (gone /\ n > 0)
            THEN /\ LET linked_files == {snapshot_files[i] : i \in 1..(IF gone THEN 0 ELSE linked)}
                    IN \E left \in SUBSET linked_files :
                         /\ local' = [emptied EXCEPT ![tablet_path] =
                                         RemoveLinked(LinkFiles(@, s.snapshot_path,
                                                                linked_files),
                                                      linked_files, left)]
                         /\ hist' = [hist EXCEPT ![l].link_failed = TRUE,
                                                 ![l].written = linked_files,
                                                 ![l].unlink_failed = left]
                 /\ MoveReturn(l, "InternalError")
                 /\ engine' = released
                 /\ last_access' = {Access(l, s.snapshot_path, "list", snapshot_locks),
                                    Access(l, s.snapshot_path, "link", snapshot_locks)}
            ELSE /\ local' = [emptied EXCEPT ![tablet_path] =
                                 LinkFiles(@, s.snapshot_path, SeqToSet(snapshot_files))]
                 /\ engine' = [released EXCEPT !.loaded =
                                  LoadTabletFromDir(@, s.tablet_id, tablet_path, TRUE)]
                 /\ MoveReturn(l, IF reloaded THEN "OK" ELSE "InternalError")
                 /\ last_access' = {Access(l, s.snapshot_path, "list", snapshot_locks),
                                    Access(l, s.snapshot_path, "link", snapshot_locks)}
                 /\ UNCHANGED hist
    /\ UNCHANGED <<remote, fe_cancelled>>

\* Another actor takes a free lock of a tablet.
TabletLockTaken(i, k) ==
    /\ engine.tablet_locks[i][k] = NoLoader
    /\ engine' = [engine EXCEPT !.tablet_locks[i][k] = "other"]
    /\ last_access' = {}
    /\ UNCHANGED <<local, remote, snapshot_locks, fe_cancelled, ld, hist>>

\* Another actor releases the lock it holds.
TabletLockReleased(i, k) ==
    /\ engine.tablet_locks[i][k] = "other"
    /\ engine' = [engine EXCEPT !.tablet_locks[i][k] = NoLoader]
    /\ last_access' = {}
    /\ UNCHANGED <<local, remote, snapshot_locks, fe_cancelled, ld, hist>>

(***************************************************************************)
(* Initial states.                                                          *)
(***************************************************************************)
\* Every directory over a set of names: which exist, and with what content.
DirsOver(names) == UNION {[S -> Contents] : S \in SUBSET names}

\* The objects a remote directory can hold for a set of file names: objects
\* committed by earlier uploads, named by the checksum of their content, and
\* ".part" objects left by a failed two-phase upload.
CommittedObjs(names) == {n \o <<Md5(c)>> : n \in names, c \in Contents}
PartObjs(names) == {n \o <<"part">> : n \in names}

RemoteDirsOver(objs) == {[o \in S |-> (IF o[Len(o)] = "part" THEN 1
        ELSE CHOOSE c \in Contents : Md5(c) = o[Len(o)])] : S \in SUBSET objs}

InitShared ==
    /\ snapshot_locks = [p \in {Snap1, Snap2, SnapB1} |-> NoLoader]
    /\ fe_cancelled = FALSE
    /\ engine = [tablets |-> {1, 2},
            tablet_locks |-> [i \in {1, 2} |-> [k \in TabletLocks |-> NoLoader]],
            stores |-> {"/data"},
            loaded |-> <<>>]
    /\ last_access = {}

InitCommon ==
    /\ InitShared
    /\ hist = [l \in Loaders |-> InitHist]

InitUpload ==
    /\ InitCommon
    /\ \E d \in DirsOver({Hdr1, Dat}) : local = (Snap1 :> d) @@ (SnapB1 :> (Dat :> 1))
    /\ \E r \in RemoteDirsOver(CommittedObjs({Dat}) \cup {Hdr1 \o <<Md5(1)>>}
                                  \cup PartObjs({Dat})) :
         remote = (Rem1 :> r)
    /\ \E type \in {"S3", "HDFS"}, pairs \in {<<[first |-> Snap1, second |-> Rem1]>>,
            <<[first |-> Snap1, second |-> Rem1], [first |-> SnapB1, second |-> Rem1]>>} :
         ld = [l \in Loaders |->
                 IF l = "A" THEN InitLocals("upload", type, pairs) ELSE IdleLocals]

NextUpload ==
    \E l \in Loaders :
        \/ UploadBegin(l)
        \/ UploadAcquire(l)
        \/ UploadList(l)
        \/ UploadFile(l)
        \/ UploadPairEnd(l)
        \/ UploadAgain(l)

SpecUpload == InitUpload /\ [][NextUpload]_vars

InitDownload ==
    /\ InitCommon
    /\ \E d \in DirsOver({Dat}), few \in SUBSET {Hdr1, Hdr2, Txt} :
         local = (Snap1 :> (d @@ [n \in few |-> 1]))
    /\ \E rpath \in {Rem1, Rem2} :
         /\ \E r \in RemoteDirsOver(CommittedObjs({Dat, <<IntToStr(GetTabletIdFromRemotePath(rpath).tablet_id), "hdr">>})
                                    \cup {Hdr5 \o <<Md5(1)>>} \cup PartObjs({Dat})) :
              remote = (rpath :> r)
         /\ ld = [l \in Loaders |->
                    IF l = "A"
                    THEN InitLocals("download", "S3", <<[first |-> rpath, second |-> Snap1]>>)
                    ELSE IdleLocals]

NextDownload ==
    \E l \in Loaders :
        \/ DownloadBegin(l)
        \/ DownloadAcquire(l)
        \/ DownloadList(l)
        \/ DownloadFile(l)
        \/ DownloadPrune(l)

SpecDownload == InitDownload /\ [][NextDownload]_vars

(***************************************************************************)
(* move of one snapshot into a live tablet directory, while other actors    *)
(* take and release the locks of the tablet.                                *)
(***************************************************************************)
MoveLocals(snapshot_path, tablet, overwrite) ==
    [InitLocals("move", "NONE", <<>>) EXCEPT
        !.snapshot_path = snapshot_path, !.tablet = tablet, !.overwrite = overwrite]

\* The other actors are followed for as long as a move is running.
MoveRunning(l) == ld[l].op = "move" /\ ld[l].pc # "done"

InitMove ==
    /\ InitCommon
    /\ \E s \in {[n \in S |-> 1] : S \in SUBSET {Hdr1, Dat}}, d \in {[n \in S |-> 1] : S \in SUBSET {Dat, Txt}}, more \in {{}, {Snap2, <<"", "data", "2", "7">>}} :
         local = (Snap1 :> s) @@ (Tab1 :> d) @@ [p \in more |-> <<>>]
    /\ remote = <<>>
    /\ \E snapshot_path \in {Snap1, Snap2}, tablet \in {[id |-> 1, tablet_path |-> Tab1, store_path |-> "/data"],
            [id |-> 2, tablet_path |-> <<"", "data", "2", "7">>, store_path |-> "/data"],
            [id |-> 1, tablet_path |-> Tab1, store_path |-> "/gone"],
            [id |-> 1, tablet_path |-> Snap1, store_path |-> "/data"]}, overwrite \in BOOLEAN :
         ld = [l \in Loaders |->
                 IF l = "A" THEN MoveLocals(snapshot_path, tablet, overwrite)
                 ELSE IdleLocals]

NextMove ==
    \/ \E l \in Loaders : MoveAcquire(l)
    \/ \E l \in Loaders : MoveValidate(l)
    \/ \E l \in Loaders : MoveLocks(l)
    \/ \E l \in Loaders : MovePromote(l)
    \/ \E l \in Loaders, k \in TabletLocks :
         MoveRunning(l) /\ TabletLockTaken(ld[l].tablet.id, k)
    \/ \E l \in Loaders, k \in TabletLocks :
         MoveRunning(l) /\ TabletLockReleased(ld[l].tablet.id, k)

SpecMove == InitMove /\ [][NextMove]_vars

(***************************************************************************)
(* Two Loaders of one process, each running one call, on the same local     *)
(* directories.                                                             *)
(***************************************************************************)
\* The remote directories the second Loader downloads from and the remote
\* directories the uploads write to.
RemB1 == <<"bos://vp/", "", "1">>
RemB2 == <<"bos://vp/", "", "2">>
UpA == <<"bos://wa/", "", "1">>

\* The calls a Loader may run: a download of two pairs or of one, an upload
\* of one pair or of two, a move.  std::map iterates the pairs in the order of their keys.
ConcCalls(l) ==
    LET r1 == IF l = "A" THEN Rem1 ELSE RemB1
        r2 == IF l = "A" THEN Rem2 ELSE RemB2
        up == IF l = "A" THEN UpA ELSE <<"bos://wb/", "", "1">>
        up2 == IF l = "A" THEN <<"bos://wa/", "", "2">> ELSE <<"bos://wb/", "", "2">>
    IN {InitLocals("download", "S3", <<[first |-> r1, second |-> Snap1],
                                       [first |-> r2, second |-> Snap2]>>),
        InitLocals("download", "S3", <<[first |-> r1, second |-> Snap1]>>),
        InitLocals("upload", "S3", <<[first |-> Snap1, second |-> up]>>),
        InitLocals("upload", "S3", <<[first |-> Snap1, second |-> up],
                                     [first |-> Snap2, second |-> up2]>>),
        MoveLocals(Snap1, [id |-> 1, tablet_path |-> Tab1, store_path |-> "/data"], TRUE)}

InitConc ==
    /\ InitShared
    /\ \E d \in {<<>>, (Dat :> 1), (Hdr1 :> 1) @@ (Dat :> 2)} :
         local = (Snap1 :> d) @@ (Snap2 :> (Dat :> 1)) @@ (Tab1 :> (Dat :> 1))
    /\ remote = (Rem1 :> (Dat \o <<Md5(1)>> :> 1)) @@ (Rem2 :> (Dat \o <<Md5(1)>> :> 1))
                @@ (RemB1 :> (Dat \o <<Md5(2)>> :> 2)) @@ (RemB2 :> (Dat \o <<Md5(2)>> :> 2))
    /\ \E a \in ConcCalls("A"), b \in ConcCalls("B") :
         ld = [l \in Loaders |-> IF l = "A" THEN a ELSE b]
    /\ hist = [l \in Loaders |->
                 [InitHist EXCEPT !.start = [local |-> local, remote |-> remote]]]

NextConc ==
    \/ \E l \in Loaders : UploadBegin(l)
    \/ \E l \in Loaders : UploadAcquire(l)
    \/ \E l \in Loaders : UploadList(l)
    \/ \E l \in Loaders : UploadFile(l)
    \/ \E l \in Loaders : UploadPairEnd(l)
    \/ \E l \in Loaders : DownloadBegin(l)
    \/ \E l \in Loaders : DownloadAcquire(l)
    \/ \E l \in Loaders : DownloadList(l)
    \/ \E l \in Loaders : DownloadFile(l)
    \/ \E l \in Loaders : DownloadPrune(l)
    \/ \E l \in Loaders : MoveAcquire(l)
    \/ \E l \in Loaders : MoveValidate(l)
    \/ \E l \in Loaders : MoveLocks(l)
    \/ \E l \in Loaders : MovePromote(l)

SpecConc == InitConc /\ [][NextConc]_vars

(***************************************************************************)
(* One call of upload, download or remote_http_download over more than      *)
(* ReportThreshold files, during which the coordinator may cancel the job.  *)
(***************************************************************************)
\* The coordinator marks the job CANCELLED.
Cancel ==
    /\ ~fe_cancelled
    /\ fe_cancelled' = TRUE
    /\ last_access' = {}
    /\ UNCHANGED <<local, remote, snapshot_locks, engine, ld, hist>>

\* Snapshot directories of a peer backend.
Peer1 == <<"", "peer", "1", "7">>
Peer2 == <<"", "peer", "2", "7">>

\* A directory holding the given names, all with the given content.
DirOf(names, c) == [n \in names |-> c]

\* The objects <name>.<md5> of a committed upload of such a directory.
ObjsOf(names, c) == [o \in {n \o <<Md5(c)>> : n \in names} |-> c]

TRemoteTabletSnapshot(local_tablet_id, local_path, remote_tablet_id, remote_path) ==
    [local_tablet_id |-> local_tablet_id, local_snapshot_path |-> local_path,
     remote_tablet_id |-> remote_tablet_id, remote_snapshot_path |-> remote_path]

HttpLocals(snapshots, peer_md5) ==
    [InitLocals("remote_http_download", "NONE", <<>>) EXCEPT
        !.remote_tablet_snapshots = snapshots, !.peer_md5 = peer_md5]

\* The local directories and the remote ones when the call begins.
CancelLocal ==
    (Snap1 :> DirOf({Hdr1, Dat, Idx, Hdr2, Hdr5, Txt, Bare}, 1))
    @@ (Snap2 :> DirOf({Hdr2, Dat, Idx, Txt, Bare}, 1))
    @@ (SnapB1 :> DirOf({Dat}, 1))

CancelRemote ==
    (Rem1 :> ObjsOf({Hdr1, Dat, Idx}, 1)) @@ (Rem2 :> ObjsOf({Hdr2, Dat, Idx}, 2))
    @@ (RemB1 :> ObjsOf({Hdr1, Dat, Idx}, 1))
    @@ (RemB2 :> ObjsOf({Hdr2, Dat, Idx}, 2))
    @@ (Peer1 :> DirOf({Hdr1, Hdr5, Dat, Idx}, 2))
    @@ (Peer2 :> DirOf({Hdr2, Hdr5, Dat, Idx}, 2))
    @@ (<<"", "peer", "5", "7">> :> DirOf({Hdr1, Hdr5, Dat, Idx}, 2))

InitCancel ==
    /\ InitCommon
    /\ local = CancelLocal
    /\ remote = CancelRemote
    /\ \E call \in ({InitLocals("upload", "S3", <<[first |-> Snap1, second |-> UpA],
                                          [first |-> Snap2, second |-> <<"bos://wa/", "", "2">>]>>),
             InitLocals("download", "S3", <<[first |-> Rem1, second |-> SnapB1],
                                            [first |-> Rem2, second |-> SnapB1],
                                            [first |-> RemB1, second |-> SnapB1],
                                            [first |-> RemB2, second |-> SnapB1]>>)}
            \cup {HttpLocals(<<TRemoteTabletSnapshot(1, Snap1, 1, Peer1),
                               TRemoteTabletSnapshot(2, Snap2, 2, Peer2),
                               TRemoteTabletSnapshot(1, SnapB1, 5, <<"", "peer", "5", "7">>)>>, peer_md5) :
                     peer_md5 \in BOOLEAN}) :
         ld = [l \in Loaders |-> IF l = "A" THEN call ELSE IdleLocals]

NextCancel ==
    \/ Cancel
    \/ \E l \in Loaders : UploadBegin(l)
    \/ \E l \in Loaders : UploadAcquire(l)
    \/ \E l \in Loaders : UploadList(l)
    \/ \E l \in Loaders : UploadFile(l)
    \/ \E l \in Loaders : UploadPairEnd(l)
    \/ \E l \in Loaders : DownloadBegin(l)
    \/ \E l \in Loaders : DownloadAcquire(l)
    \/ \E l \in Loaders : DownloadList(l)
    \/ \E l \in Loaders : DownloadFile(l)
    \/ \E l \in Loaders : DownloadPrune(l)
    \/ \E l \in Loaders : HttpBegin(l)
    \/ \E l \in Loaders : HttpAcquire(l)
    \/ \E l \in Loaders : HttpList(l)
    \/ \E l \in Loaders : HttpCompare(l)
    \/ \E l \in Loaders : HttpFile(l)
    \/ \E l \in Loaders : HttpPrune(l)

SpecCancel == InitCancel /\ [][NextCancel]_vars

(***************************************************************************)
(* What a call does when it runs alone, nothing fails and it returns OK.    *)
(***************************************************************************)
\* download, lines 287-368: the loop over the remote files.
RECURSIVE DownloadLoop(_, _, _, _, _, _)
DownloadLoop(keys, i, m, objs, tablet_id, st) ==
    IF i > Len(keys) THEN st
    ELSE LET remote_file == keys[i]
             file_stat == m[remote_file]
             local_md5sum == IF remote_file \in DOMAIN st.dir
                             THEN Md5(st.dir[remote_file]) ELSE ""
             renamed == ReplaceTabletId(remote_file, tablet_id)
             fetched == objs[remote_file \o <<file_stat.md5>>]
         IN IF NeedDownload(st.files, remote_file, file_stat, TRUE, local_md5sum)
            THEN DownloadLoop(keys, i + 1, m, objs, tablet_id,
                              [dir |-> (renamed.name :> fetched) @@ st.dir,
                               files |-> Append(RemoveFirst(st.files, remote_file),
                                                renamed.name)])
            ELSE DownloadLoop(keys, i + 1, m, objs, tablet_id, st)

\* download, lines 245-398, of one pair.
DownloadPairEffect(fs, pair) ==
    LET dir == fs.local[pair.second]
        objs == fs.remote[pair.first]
        m == CHOOSE m \in ListWithChecksum(objs) : TRUE
        tablet_id == GetTabletIdAndSchemaHash(pair.second).tablet_id
        remote_tablet_id == GetTabletIdFromRemotePath(pair.first).tablet_id
        looped == DownloadLoop(SortNames(DOMAIN m), 1, m, objs, tablet_id,
                               [dir |-> dir, files |-> SortNames(DOMAIN dir)])
        doomed == PruneCandidates(looped.files, m, remote_tablet_id)
    IN [fs EXCEPT !.local[pair.second] = Without(looped.dir, doomed)]

\* upload, lines 146-213, of one pair to an object store.
UploadPairEffect(fs, pair) ==
    LET dir == fs.local[pair.first]
        objs == IF pair.second \in DOMAIN fs.remote THEN fs.remote[pair.second] ELSE <<>>
        m == CHOOSE m \in ListWithChecksum(objs) : TRUE
        sent == {f \in DOMAIN dir : NeedUpload(m, f, Md5(dir[f]))}
        added == [o \in {FullRemotePath(f, Md5(dir[f])) : f \in sent} |-> dir[Strip(o)]]
    IN IF sent = {} THEN fs
       ELSE [fs EXCEPT !.remote = (pair.second :> (added @@ objs)) @@ @]

\* move, lines 701-844.
MoveEffect(fs, call) ==
    LET converted == [fs.local EXCEPT ![call.snapshot_path] = ConvertRowsetIds(@)]
    IN [fs EXCEPT !.local =
          [converted EXCEPT ![call.tablet.tablet_path] =
              LinkFiles(RemoveAllAndCreate(@), call.snapshot_path,
                        DOMAIN converted[call.snapshot_path])]]

RECURSIVE PairsEffect(_, _, _)
PairsEffect(call, i, fs) ==
    IF i > Len(call.src_to_dest_path) THEN fs
    ELSE PairsEffect(call, i + 1,
                     IF call.op = "upload"
                     THEN UploadPairEffect(fs, call.src_to_dest_path[i])
                     ELSE DownloadPairEffect(fs, call.src_to_dest_path[i]))

CallEffect(call, fs) ==
    IF call.op = "move" THEN MoveEffect(fs, call) ELSE PairsEffect(call, 1, fs)

\* The two calls one after the other.
Serial(first, second) == CallEffect(ld[second], CallEffect(ld[first], hist[first].start))

Serials == {Serial("A", "B"), Serial("B", "A")}

(***************************************************************************)
(* Properties of upload.                                                    *)
(***************************************************************************)
UploadReturned(l, st) ==
    ld[l].op = "upload" /\ ld[l].pc = "done" /\ ld[l].status = st

\* C1: upload idempotence.  When upload is run twice in a row on unchanged
\* local files and both runs return OK, the second run returns the manifest
\* of the first and calls the remote upload for no file, whatever the remote
\* directory held initially.
C1_UploadIdempotent ==
    \A l \in Loaders :
        (UploadReturned(l, "OK") /\ hist[l].run = 2 /\ hist[l].prev[1].status = "OK")
        => /\ ld[l].tablet_files = hist[l].prev[1].tablet_files
           /\ hist[l].transfers = 0

\* C3: checksum soundness.  After upload returns OK, every manifest entry
\* f.md5 names an object of the pair's remote directory, the suffix is the md5
\* of that object and of local file f, and the object has the size of f.
C3_ChecksumSoundness ==
    \A l \in Loaders :
        UploadReturned(l, "OK") =>
            \A tablet_id \in DOMAIN ld[l].tablet_files :
                LET pair == (
                        LET pairs == ld[l].src_to_dest_path
                            i == CHOOSE i \in 1..Len(pairs) :
                                    /\ GetTabletIdAndSchemaHash(pairs[i].first).tablet_id = tablet_id
                                    /\ \A j \in 1..(i - 1) :
                                         GetTabletIdAndSchemaHash(pairs[j].first).tablet_id # tablet_id
                        IN pairs[i])
                    objs == RemoteObjs(pair.second)
                IN \A e \in SeqToSet(ld[l].tablet_files[tablet_id]) :
                     /\ e \in DOMAIN objs
                     /\ Strip(e) \in DOMAIN local[pair.first]
                     /\ Md5(objs[e]) = e[Len(e)]
                     /\ Md5(objs[e]) = Md5(local[pair.first][Strip(e)])
                     /\ Size(objs[e]) = Size(local[pair.first][Strip(e)])

\* An upload returned OK with a manifest entry whose object it has just sent
\* and one it found on the remote already.
C3_Witness ==
    \E l \in Loaders :
        /\ UploadReturned(l, "OK")
        /\ hist[l].run = 1
        /\ hist[l].transfers = 1
        /\ \E tablet_id \in DOMAIN ld[l].tablet_files :
             Len(ld[l].tablet_files[tablet_id]) = 2

(***************************************************************************)
(* Properties of download.                                                  *)
(***************************************************************************)
DownloadReturned(l, st) ==
    ld[l].op = "download" /\ ld[l].pc = "done" /\ ld[l].status = st

\* The local directory of the pair the call worked on last.
LocalDirOf(l) == local[ld[l].src_to_dest_path[ld[l].pair_idx].second]

LegalName(x) == EndWith(x, "hdr") \/ EndWith(x, "idx") \/ EndWith(x, "dat")

\* When the lock was taken the local directory held remote file k, under the
\* name a download gives it, with the checksum of the listing.
HeldAtCall(l, k) ==
    LET renamed == ReplaceTabletId(k, ld[l].tablet_id)
    IN /\ renamed.ok
       /\ renamed.name \in DOMAIN hist[l].local0
       /\ Md5(hist[l].local0[renamed.name]) = ld[l].remote_files[k].md5

\* C2: download idempotence.  When the local directory already holds every
\* remote file with a matching md5, whatever its kind, a download that returns
\* OK has fetched nothing and the local directory is as it was.
C2_DownloadIdempotent ==
    \A l \in Loaders :
        (DownloadReturned(l, "OK") /\ \A k \in DOMAIN ld[l].remote_files : HeldAtCall(l, k))
        => hist[l].transfers = 0 /\ LocalDirOf(l) = hist[l].local0

\* A remote data or index file whose local copy had the listed checksum and
\* could be hashed.
MatchingData(l, k) ==
    /\ ~EndWith(k, "hdr")
    /\ HeldAtCall(l, k)
    /\ k \notin hist[l].hash_failed

\* C2 (amended): after a download that returns OK, a remote .idx or .dat file
\* whose local copy had the listed md5 and could be hashed has not been
\* fetched and is unchanged; when every remote file is such a file, nothing
\* was fetched.
C2_DownloadIdempotentData ==
    \A l \in Loaders :
        DownloadReturned(l, "OK") =>
            /\ \A k \in DOMAIN ld[l].remote_files :
                 MatchingData(l, k) =>
                    /\ k \notin hist[l].written
                    /\ k \in DOMAIN LocalDirOf(l)
                    /\ LocalDirOf(l)[k] = hist[l].local0[k]
            /\ (\A k \in DOMAIN ld[l].remote_files : MatchingData(l, k))
                 => hist[l].transfers = 0

\* A download returned OK having skipped a matching data file and fetched a
\* header that the local directory held too.
C2_Witness ==
    \E l \in Loaders :
        /\ DownloadReturned(l, "OK")
        /\ \E k \in DOMAIN ld[l].remote_files : MatchingData(l, k)
        /\ \E k \in DOMAIN ld[l].remote_files : EndWith(k, "hdr") /\ HeldAtCall(l, k)
        /\ hist[l].transfers = 1

\* C9: prune completeness.  After download returns OK every file of the local
\* directory, whatever its suffix, can be renamed to the remote tablet id and
\* its renamed name is in the remote listing.
C9_PruneComplete ==
    \A l \in Loaders :
        DownloadReturned(l, "OK") =>
            \A x \in DOMAIN LocalDirOf(l) :
                LET renamed == ReplaceTabletId(x, ld[l].remote_tablet_id)
                IN renamed.ok /\ renamed.name \in DOMAIN ld[l].remote_files

\* C9 (amended): after download returns OK every local file with suffix .hdr,
\* .idx or .dat whose unlink did not fail has its name in the remote listing,
\* as it is or renamed to the remote tablet id; files of another suffix are
\* not examined.
C9_PruneCompleteLegal ==
    \A l \in Loaders :
        DownloadReturned(l, "OK") =>
            \A x \in DOMAIN LocalDirOf(l) :
                (LegalName(x) /\ x \notin hist[l].unlink_failed) =>
                    \/ ReplaceTabletId(x, ld[l].remote_tablet_id).name
                          \in DOMAIN ld[l].remote_files
                    \/ x \in DOMAIN ld[l].remote_files

\* A download returned OK having unlinked a data file and a header that the
\* remote lacks, and left a file of another suffix.
C9_Witness ==
    \E l \in Loaders :
        /\ DownloadReturned(l, "OK")
        /\ Txt \in DOMAIN LocalDirOf(l)
        /\ \E x \in DOMAIN hist[l].local0 : EndWith(x, "hdr") /\ x \notin DOMAIN LocalDirOf(l)
        /\ Dat \in DOMAIN hist[l].local0 /\ Dat \notin DOMAIN LocalDirOf(l)
        /\ hist[l].unlink_failed = {}

\* x is the local copy of a remote file and has the checksum listed for it.
CopyOfRemote(l, x) ==
    \E k \in DOMAIN ld[l].remote_files :
        /\ ReplaceTabletId(k, ld[l].tablet_id).ok
        /\ ReplaceTabletId(k, ld[l].tablet_id).name = x
        /\ Md5(LocalDirOf(l)[x]) = ld[l].remote_files[k].md5

\* C10: after download returns OK every file of the local directory has the
\* md5 of a file of the remote listing or is a header fetched by this call.
C10_OnlyRemoteFiles ==
    \A l \in Loaders :
        DownloadReturned(l, "OK") =>
            \A x \in DOMAIN LocalDirOf(l) :
                \/ \E k \in DOMAIN ld[l].remote_files :
                     Md5(LocalDirOf(l)[x]) = ld[l].remote_files[k].md5
                \/ EndWith(x, "hdr") /\ x \in hist[l].written

\* x was in the directory before the call and the call did not touch it.
Untouched(l, x) ==
    /\ x \notin hist[l].written
    /\ x \in DOMAIN hist[l].local0
    /\ LocalDirOf(l)[x] = hist[l].local0[x]

\* C10 (amended): after download returns OK every file of the local directory
\* is the local copy of a remote file, with its md5, or a file from before the
\* call left untouched: one of a suffix other than .hdr, .idx, .dat, one whose
\* unlink failed, or a header not named after the local tablet.
C10_RemoteFilesAndLeftovers ==
    \A l \in Loaders :
        DownloadReturned(l, "OK") =>
            \A x \in DOMAIN LocalDirOf(l) :
                \/ CopyOfRemote(l, x)
                \/ /\ Untouched(l, x)
                   /\ \/ ~LegalName(x)
                      \/ x \in hist[l].unlink_failed
                      \/ EndWith(x, "hdr") /\ x # <<IntToStr(ld[l].tablet_id), "hdr">>

\* A download returned OK having fetched a header and a data file and kept a
\* header of another tablet.
C10_Witness ==
    \E l \in Loaders :
        /\ DownloadReturned(l, "OK")
        /\ hist[l].unlink_failed = {}
        /\ {Hdr1, Dat} \subseteq hist[l].written
        /\ Hdr2 \in DOMAIN LocalDirOf(l) /\ Untouched(l, Hdr2)
        /\ ~CopyOfRemote(l, Hdr2)

(***************************************************************************)
(* Properties of move.                                                      *)
(***************************************************************************)
MoveReturned(l, st) == ld[l].op = "move" /\ ld[l].pc = "done" /\ ld[l].status = st

MoveDone(l) == ld[l].op = "move" /\ ld[l].pc = "done"

C7_MoveSuccessExactLinks ==
    \A l \in Loaders :
        MoveReturned(l, "OK") =>
            LET tablet_dir == local[ld[l].tablet.tablet_path]
                snapshot_dir == local[ld[l].snapshot_path]
            IN /\ DOMAIN tablet_dir = DOMAIN snapshot_dir
               /\ \A f \in DOMAIN tablet_dir : tablet_dir[f] = LinkTo(ld[l].snapshot_path, f)

\* A move returned OK for a snapshot of two files and a tablet directory that
\* held a file of another name.
C7_Witness ==
    \E l \in Loaders :
        /\ MoveReturned(l, "OK")
        /\ ld[l].tablet.tablet_path # ld[l].snapshot_path
        /\ Cardinality(DOMAIN local[ld[l].snapshot_path]) = 2
        /\ Txt \in DOMAIN hist[l].fs0[ld[l].tablet.tablet_path]
        /\ Len(engine.loaded) = 1

(***************************************************************************)
(* Properties of two concurrent calls.                                      *)
(***************************************************************************)
\* Both calls returned OK and no failure was ignored on the way.
BothReturnedOK ==
    \A l \in Loaders : ld[l].pc = "done" /\ ld[l].status = "OK" /\ ~hist[l].ignored

\* The local path whose guard Loader l is inside, if any.
SectionPaths(l) ==
    IF ld[l].op \in {"upload", "download"} /\ ld[l].pc \in {"list", "file"}
    THEN {IF ld[l].op = "upload" THEN ld[l].src_to_dest_path[ld[l].pair_idx].first
          ELSE ld[l].src_to_dest_path[ld[l].pair_idx].second}
    ELSE IF ld[l].op = "move" /\ ld[l].pc \in {"validate", "locks", "promote"}
    THEN {ld[l].snapshot_path}
    ELSE {}

C5_NoAccessWhileLocked ==
    \A a \in last_access : a.holder \in {NoLoader, a.loader}

\* C5 (amended): every listing, hashing, read, write, link or delete a Loader
\* makes on a local path is made while that Loader holds the lock of the path;
\* only the is-directory check that upload and download make of every path
\* before the first pair runs without the lock.
C5_OnlyTheHolderAccesses ==
    \A a \in last_access :
        \/ a.holder = a.loader
        \/ /\ a.kind = "is_directory"
           /\ ld[a.loader].op \in {"upload", "download"}

\* A Loader lists a directory under its lock, and a Loader checks a directory
\* whose lock another Loader holds.
C5_Witness ==
    /\ \E a \in last_access :
         a.kind = "is_directory" /\ a.holder \notin {NoLoader, a.loader}
    /\ \E l \in Loaders : SectionPaths(l) # {}

C11_DownloadComplete ==
    \A l \in Loaders :
        DownloadReturned(l, "OK") =>
            \A k \in DOMAIN ld[l].remote_files :
                LET renamed == ReplaceTabletId(k, ld[l].tablet_id)
                IN /\ renamed.ok
                   /\ renamed.name \in DOMAIN LocalDirOf(l)
                   /\ Md5(LocalDirOf(l)[renamed.name]) = ld[l].remote_files[k].md5

(***************************************************************************)
(* A download and a peer download of two tablets, each into the snapshot    *)
(* directory of a tablet with another id.                                   *)
(***************************************************************************)
\* The tablet id a file name encodes, as in the examples of lines 915-918:
\* the digits before the first "." or "_".
TabletIdOfFileName(name) ==
    LET stem == name[1]
    IN ParseInt(CASE stem = "1_0" -> "1" [] stem = "2_0" -> "2" [] OTHER -> stem)

\* Locally the data file of tablet 2 has any content or is absent and the
\* headers exist or not; the remote directories and the peer hold the header
\* and the data file of their tablet.
InitRetarget ==
    /\ InitCommon
    /\ \E d \in DirsOver({Dat2}), few \in SUBSET {Hdr1, Hdr2}, e \in DirsOver({Dat}) :
         local = (Snap1 :> (d @@ [n \in few |-> 1])) @@ (Snap2 :> e)
    /\ \E c \in Contents :
         remote = (Rem1 :> ObjsOf({Hdr1, Dat}, 1)) @@ (Rem2 :> ObjsOf({Hdr2, Dat2}, c))
                  @@ (Peer1 :> DirOf({Hdr1, Dat}, 1)) @@ (Peer2 :> DirOf({Hdr2, Dat2}, c))
    /\ \E call \in ({InitLocals("download", "S3", <<[first |-> Rem1, second |-> Snap2],
                                            [first |-> Rem2, second |-> Snap1]>>)}
            \cup {HttpLocals(<<TRemoteTabletSnapshot(2, Snap2, 1, Peer1),
                               TRemoteTabletSnapshot(1, Snap1, 2, Peer2)>>, peer_md5) :
                     peer_md5 \in BOOLEAN}) :
         ld = [l \in Loaders |-> IF l = "A" THEN call ELSE IdleLocals]

NextRetarget ==
    \/ \E l \in Loaders : DownloadBegin(l)
    \/ \E l \in Loaders : DownloadAcquire(l)
    \/ \E l \in Loaders : DownloadList(l)
    \/ \E l \in Loaders : DownloadFile(l)
    \/ \E l \in Loaders : DownloadPrune(l)
    \/ \E l \in Loaders : HttpBegin(l)
    \/ \E l \in Loaders : HttpAcquire(l)
    \/ \E l \in Loaders : HttpList(l)
    \/ \E l \in Loaders : HttpCompare(l)
    \/ \E l \in Loaders : HttpFile(l)
    \/ \E l \in Loaders : HttpPrune(l)

SpecRetarget == InitRetarget /\ [][NextRetarget]_vars

Retargeting(l) ==
    /\ ld[l].op \in {"download", "remote_http_download"}
    /\ ld[l].remote_tablet_id # ld[l].tablet_id

\* C12: tablet-id consistency after retargeting.  After a download or a peer
\* download from a remote tablet into the local directory of a tablet with
\* another id has returned OK, every file the call wrote into the directory
\* has a name that encodes the local tablet id.
C12_WrittenNamesEncodeLocal ==
    \A l \in Loaders :
        (Retargeting(l) /\ ld[l].pc = "done" /\ ld[l].status = "OK") =>
            \A x \in hist[l].written : TabletIdOfFileName(x) = ld[l].tablet_id

\* C12 (amended): every header a download or a peer download writes into the
\* local directory of a tablet is named after the local tablet id; a data or
\* index file is written under the name it has on the remote, which encodes
\* the id of the remote tablet.
C12_HeadersEncodeLocal ==
    \A l \in Loaders :
        Retargeting(l) =>
            \A x \in hist[l].written :
                IF EndWith(x, "hdr") THEN TabletIdOfFileName(x) = ld[l].tablet_id
                ELSE x \in DOMAIN ld[l].remote_files

\* A call from remote tablet 2 into the directory of tablet 1 returned OK
\* having written 1.hdr and 2_0.dat.
C12_Witness ==
    \E l \in Loaders :
        /\ Retargeting(l) /\ ld[l].pc = "done" /\ ld[l].status = "OK"
        /\ ld[l].tablet_id = 1 /\ ld[l].remote_tablet_id = 2
        /\ hist[l].written = {Hdr1, Dat2}

(***************************************************************************)
(* _replace_tablet_id applied twice: the name of a remote file is rewritten *)
(* to the local tablet id, as download does before it fetches the file, and *)
(* the result is rewritten to the remote tablet id, as the prune loop does. *)
(***************************************************************************)
InitCodec ==
    /\ InitCommon
    /\ local = <<>>
    /\ remote = <<>>
    /\ \E file_name \in (SeqToSet(NamePool) \cup {<<"7", "hdr">>, <<"", "hdr">>, <<"hdr">>, <<"1_0", "dat", "part">>}), L \in {1, 2, 5, 7}, R \in {1, 2, 5, 7} :
         ld = [l \in Loaders |-> IF l = "A" THEN [op |-> "replace_tablet_id", pc |-> "begin", status |-> "running",
                 file_name |-> file_name, tablet_id |-> L,
                 remote_tablet_id |-> R, local_file_name |-> <<>>, new_name |-> <<>>] ELSE IdleLocals]

\* download, line 332: the name of the remote file with the local tablet id.
RewriteToLocal(l) ==
    /\ ld[l].op = "replace_tablet_id" /\ ld[l].pc = "begin"
    /\ LET renamed == ReplaceTabletId(ld[l].file_name, ld[l].tablet_id)
       IN ld' = [ld EXCEPT ![l].pc = IF renamed.ok THEN "local" ELSE "done",
                           ![l].status = IF renamed.ok THEN @ ELSE "InternalError",
                           ![l].local_file_name = renamed.name]
    /\ UNCHANGED <<local, remote, snapshot_locks, fe_cancelled, engine, hist, last_access>>

\* download, line 375: the name of the local file with the remote tablet id.
RewriteToRemote(l) ==
    /\ ld[l].op = "replace_tablet_id" /\ ld[l].pc = "local"
    /\ LET renamed == ReplaceTabletId(ld[l].local_file_name, ld[l].remote_tablet_id)
       IN ld' = [ld EXCEPT ![l].pc = "done",
                           ![l].status = IF renamed.ok THEN "OK" ELSE "InternalError",
                           ![l].new_name = renamed.name]
    /\ UNCHANGED <<local, remote, snapshot_locks, fe_cancelled, engine, hist, last_access>>

NextCodec ==
    \/ \E l \in Loaders : RewriteToLocal(l)
    \/ \E l \in Loaders : RewriteToRemote(l)

SpecCodec == InitCodec /\ [][NextCodec]_vars

Rewritten(l) == ld[l].op = "replace_tablet_id" /\ ld[l].pc = "done"

\* C13: cross-node retargeting round trip.  For any local and remote tablet
\* id, a name <id>.hdr, *.idx or *.dat rewritten to the local id and then to
\* the remote id is the original name; a name of any other suffix is rejected
\* with the invalid-tablet-file-name error.
C13_RoundTrip ==
    \A l \in Loaders :
        Rewritten(l) =>
            IF LegalName(ld[l].file_name)
            THEN ld[l].status = "OK" /\ ld[l].new_name = ld[l].file_name
            ELSE ld[l].status = "InternalError"

\* C13 (amended): a name *.idx or *.dat, and the header named after the remote
\* tablet id, rewritten to the local id and then to the remote id is the
\* original name; any other name ending in .hdr comes back as the header named
\* after the remote tablet id; a name of any other suffix is rejected with the
\* invalid-tablet-file-name error.
C13_RoundTripOfRemoteHeader ==
    \A l \in Loaders :
        Rewritten(l) =>
            LET remote_hdr == <<IntToStr(ld[l].remote_tablet_id), "hdr">>
            IN IF ~LegalName(ld[l].file_name) THEN ld[l].status = "InternalError"
               ELSE /\ ld[l].status = "OK"
                    /\ ld[l].new_name = IF EndWith(ld[l].file_name, "hdr") THEN remote_hdr
                                        ELSE ld[l].file_name

\* The header of remote tablet 2 went through the name 1.hdr of local tablet 1
\* and came back as 2.hdr.
C13_Witness ==
    \E l \in Loaders :
        /\ Rewritten(l)
        /\ ld[l].file_name = Hdr2 /\ ld[l].tablet_id = 1 /\ ld[l].remote_tablet_id = 2
        /\ ld[l].local_file_name = Hdr1
        /\ ld[l].new_name = Hdr2

\* C14: peer-pull backward compatibility.  In remote_http_download a file
\* other than a header for which the peer reports an empty md5 is compared by
\* size only: when the local directory holds a file of that name and of that
\* size, the file is not among the files to download.
C14_SizeOnlyCompare ==
    \A l \in Loaders :
        (ld[l].op = "remote_http_download" /\ ld[l].pc = "file") =>
            \A f \in ld[l].need_download_files :
                ~ /\ ~EndWith(f, "hdr")
                  /\ ld[l].remote_files[f].md5 = ""
                  /\ f \in DOMAIN hist[l].local0
                  /\ Size(hist[l].local0[f]) = ld[l].remote_files[f].size

\* C15: when download or remote_http_download returns, its output list holds
\* exactly the local tablet ids of the tablets whose transfer the call has
\* completed: every pair after an OK, and no tablet whose pair failed or was
\* not reached after an error.
C15_OutputExactlyCompleted ==
    \A l \in Loaders :
        (ld[l].op \in {"download", "remote_http_download"} /\ ld[l].pc = "done")
        => ld[l].downloaded_tablet_ids = [i \in 1..ld[l].finished_num |->
                IF ld[l].op = "download"
                THEN GetTabletIdAndSchemaHash(ld[l].src_to_dest_path[i].second).tablet_id
                ELSE ld[l].remote_tablet_snapshots[i].local_tablet_id]

(***************************************************************************)
(* Properties of the manifest and of the objects of an upload.              *)
(***************************************************************************)
\* The list <file>.<md5> of every file of a local directory, in the order of
\* its listing.
ManifestOf(path) ==
    LET files == GetExistingFilesFromLocal(path)
    IN [j \in 1..Len(files) |-> files[j] \o <<Md5(local[path][files[j]])>>]

SrcTabletId(l, i) == GetTabletIdAndSchemaHash(ld[l].src_to_dest_path[i].first).tablet_id

\* C16: upload manifest.  After upload returns OK the manifest maps the local
\* tablet id of every src pair to the list <file>.<md5> of every file of that
\* pair's src directory, the files found on the remote included.
C16_ManifestOfEveryPair ==
    \A l \in Loaders :
        UploadReturned(l, "OK") =>
            \A i \in 1..Len(ld[l].src_to_dest_path) :
                /\ SrcTabletId(l, i) \in DOMAIN ld[l].tablet_files
                /\ ld[l].tablet_files[SrcTabletId(l, i)]
                     = ManifestOf(ld[l].src_to_dest_path[i].first)

\* C16 (amended): after upload returns OK the manifest has an entry for the
\* local tablet id of every src pair, and nothing else; the entry of a tablet
\* id is the list <file>.<md5> of every file of the src directory of the first
\* pair, in the order of the map, with that tablet id, the files found on the
\* remote included.
C16_ManifestOfFirstPair ==
    \A l \in Loaders :
        UploadReturned(l, "OK") =>
            /\ DOMAIN ld[l].tablet_files
                 = {SrcTabletId(l, i) : i \in 1..Len(ld[l].src_to_dest_path)}
            /\ \A i \in 1..Len(ld[l].src_to_dest_path) :
                 (\A j \in 1..(i - 1) : SrcTabletId(l, j) # SrcTabletId(l, i))
                 => ld[l].tablet_files[SrcTabletId(l, i)]
                      = ManifestOf(ld[l].src_to_dest_path[i].first)

\* An upload of two directories of one tablet returned OK having sent one
\* file and found the others on the remote; the manifest lists the two files
\* of the first directory, which are not those of the second.
C16_Witness ==
    \E l \in Loaders :
        /\ UploadReturned(l, "OK")
        /\ hist[l].run = 1
        /\ Len(ld[l].src_to_dest_path) = 2
        /\ hist[l].transfers = 1
        /\ Len(ld[l].tablet_files[1]) = 2
        /\ ld[l].tablet_files[1] # ManifestOf(ld[l].src_to_dest_path[2].first)

\* The objects of a remote directory that are the ".part" of an upload.
PartsIn(objs) == {o \in DOMAIN objs : o[Len(o)] = "part"}

\* C17: two-phase upload commit.  In every step of an upload, a new object
\* <remote>.<md5> of a broker or distributed-fs backend holds the bytes of the
\* local file and leaves no <remote>.part behind, having been renamed from it;
\* a step in which the upload or the rename fails ends the call with an error
\* and creates no object <remote>.<md5>, and only such a step leaves a new
\* <remote>.part; an object-store backend creates no ".part" object.
C17_TwoPhaseCommit ==
    [][\A l \in Loaders :
          ld[l].op = "upload" =>
            \A d \in DOMAIN remote' :
                LET before == RemoteObjs(d)
                    after == remote'[d]
                    created == {o \in DOMAIN after : o[Len(o)] # "part"} \ {o \in DOMAIN before : o[Len(o)] # "part"}
                    src_path == ld[l].src_to_dest_path[ld[l].pair_idx].first
                IN /\ (
                        /\ ld[l].op = "upload" /\ ld[l].pc = "file"
                        /\ ld'[l].pc = "done" /\ ld'[l].status # "OK") => created = {}
                   /\ ld[l].fs_type = "S3" => PartsIn(after) = PartsIn(before)
                   /\ \A o \in created :
                        /\ ld[l].fs_type # "S3" => Strip(o) \o <<"part">> \notin DOMAIN after
                        /\ after[o] = local[src_path][Strip(o)]
                        /\ o[Len(o)] = Md5(after[o])
                   /\ PartsIn(after) \ PartsIn(before) # {} => (
                           /\ ld[l].op = "upload" /\ ld[l].pc = "file"
                           /\ ld'[l].pc = "done" /\ ld'[l].status # "OK")]_vars

\* An upload to a distributed filesystem returned an error after the rename
\* of the header failed: its ".part" is on the remote and no object named by
\* the md5 of the local header is.
C17_Witness ==
    \E l \in Loaders :
        /\ UploadReturned(l, "IOError")
        /\ ld[l].fs_type = "HDFS"
        /\ hist[l].run = 1 /\ hist[l].transfers = 1
        /\ Hdr1 \o <<"part">> \in DOMAIN RemoteObjs(Rem1)
        /\ Hdr1 \o <<Md5(local[Snap1][Hdr1])>> \notin DOMAIN RemoteObjs(Rem1)

(***************************************************************************)
(* Properties of the reporter.                                              *)
(***************************************************************************)
\* C18: cancellation probe before work.  upload, download and
\* remote_http_download make one report RPC before they touch a pair; when
\* the coordinator answers CANCELLED to it the call returns the cancellation
\* error, holds no local snapshot lock, has transferred no file and deleted
\* none, and its output is empty.
C18_ProbeBeforeWork ==
    \A l \in Loaders :
        (ld[l].op \in {"upload", "download", "remote_http_download"}) =>
            /\ ld[l].pc \notin {"begin", "done"} => hist[l].probe = "passed"
            /\ hist[l].probe = "none" =>
                 /\ hist[l].transfers = 0
                 /\ \A p \in DOMAIN snapshot_locks : snapshot_locks[p] # l
            /\ hist[l].probe = "cancelled" =>
                 /\ ld[l].pc = "done" /\ ld[l].status = "Cancelled"
                 /\ \A p \in DOMAIN snapshot_locks : snapshot_locks[p] # l
                 /\ hist[l].transfers = 0
                 /\ local = CancelLocal /\ remote = CancelRemote
                 /\ ld[l].tablet_files = <<>> /\ ld[l].downloaded_tablet_ids = <<>>
                 /\ ld[l].finished_num = 0

\* A peer download whose probe was answered CANCELLED has returned.
C18_Witness ==
    \E l \in Loaders :
        /\ ld[l].op = "remote_http_download"
        /\ hist[l].probe = "cancelled"
        /\ ld[l].pc = "done"

\* C19: reporter tolerance.  A call is ended with the cancellation error
\* exactly when the RPC of its last report reached the coordinator and was
\* answered CANCELLED: after an RPC that failed in transport or was answered
\* with another status the call is not cancelled and goes on.
C19_ReporterTolerance ==
    \A l \in Loaders :
        (ld[l].op \in {"upload", "download", "remote_http_download"}) =>
            /\ ld[l].status = "Cancelled" <=> hist[l].rpc = "cancelled"
            /\ hist[l].rpc = "cancelled" => ld[l].pc = "done"
            /\ (hist[l].rpc \in {"fail", "other"} /\ ld[l].pc = "done")
                 => ld[l].status \notin {"Cancelled", "running"}

\* After the cancellation an upload made its report for the file beyond the
\* threshold, the RPC failed in transport, and the file was sent: the call
\* goes on.
C19_Witness ==
    \E l \in Loaders :
        /\ ld[l].op = "upload" /\ ld[l].pc = "file" /\ ld[l].status = "running"
        /\ fe_cancelled
        /\ hist[l].rpc = "fail"
        /\ hist[l].since_cancel = ReportThreshold + 1

(***************************************************************************)
(* Properties of a move in which a link fails.                              *)
(***************************************************************************)
\* C20: hardlink failure rollback.  When link() fails for a file of the
\* snapshot, move returns an error, load_tablet_from_dir has not been called
\* and the tablet directory holds none of the links created before the
\* failure.
C20_LinkFailureRollsBack ==
    \A l \in Loaders :
        (MoveDone(l) /\ hist[l].link_failed) =>
            /\ ld[l].status = "InternalError"
            /\ engine.loaded = hist[l].loaded0
            /\ \A f \in hist[l].written : f \notin DOMAIN local[ld[l].tablet.tablet_path]

\* C20 (amended): when link() fails for a file of the snapshot, move returns
\* an error, load_tablet_from_dir has not been called, move holds no tablet
\* lock, and the tablet directory holds exactly the links created before the
\* failure whose remove failed: remove is called for each of them and its
\* result is ignored.
C20_LinkFailureUnlinks ==
    \A l \in Loaders :
        (MoveDone(l) /\ hist[l].link_failed) =>
            /\ ld[l].status = "InternalError"
            /\ engine.loaded = hist[l].loaded0
            /\ \A k \in TabletLocks : engine.tablet_locks[ld[l].tablet.id][k] # l
            /\ hist[l].unlink_failed \subseteq hist[l].written
            /\ DOMAIN local[ld[l].tablet.tablet_path] = hist[l].unlink_failed
            /\ \A f \in hist[l].unlink_failed :
                 local[ld[l].tablet.tablet_path][f] = LinkTo(ld[l].snapshot_path, f)

\* A move whose second link failed has removed the first: the tablet
\* directory, which held files before, is empty.
C20_Witness ==
    \E l \in Loaders :
        /\ MoveReturned(l, "InternalError")
        /\ hist[l].link_failed
        /\ Cardinality(hist[l].written) = 1
        /\ hist[l].unlink_failed = {}
        /\ ld[l].tablet.tablet_path # ld[l].snapshot_path
        /\ hist[l].fs0[ld[l].tablet.tablet_path] # <<>>
        /\ local[ld[l].tablet.tablet_path] = <<>>

(***************************************************************************)
(* C21: the place of the reload of the header in move.                       *)
(***************************************************************************)
\* C21: load_tablet_from_dir is called exactly once, with restore = true, by
\* every move that returns OK; a step calls it only for a move that holds all
\* six locks of the tablet, and leaves the tablet directory holding a link to
\* every file of the snapshot and nothing else; a move that returns an error
\* after a failed listing, removal or link has not called it.
C21_LoadAfterPromotion ==
    [][/\ engine'.loaded # engine.loaded =>
            \E l \in Loaders :
              LET s == ld[l]
                  tablet_path == s.tablet.tablet_path
                  snapshot_files == SeqToSet(GetExistingFilesFromLocal(s.snapshot_path))
              IN /\ (ld[l].op = "move" /\ ld[l].pc # "done" /\ ld'[l].pc = "done") /\ s.pc = "promote"
                 /\ \A k \in TabletLocks : engine.tablet_locks[s.tablet.id][k] = l
                 /\ engine'.loaded =
                        Append(engine.loaded, [tablet_id |-> s.tablet_id,
                                               path |-> tablet_path, restore |-> TRUE])
                 /\ DOMAIN local'[tablet_path] = snapshot_files
                 /\ \A f \in snapshot_files :
                        local'[tablet_path][f] = LinkTo(s.snapshot_path, f)
                 /\ ld'[l].status \in {"OK", "InternalError"}
      /\ \A l \in Loaders :
            (ld[l].op = "move" /\ ld[l].pc # "done" /\ ld'[l].pc = "done") =>
              /\ ld'[l].status = "OK" =>
                    /\ Len(engine'.loaded) = Len(hist[l].loaded0) + 1
                    /\ engine'.loaded[Len(engine'.loaded)].restore
                    /\ ld[l].pc = "promote"
              /\ (ld'[l].status # "OK" /\ engine'.loaded # engine.loaded) =>
                    ~hist'[l].link_failed
              /\ ld'[l].status \in {"IOError", "ObtainLockFailed", "FatalError"} =>
                    engine'.loaded = hist[l].loaded0
              /\ hist'[l].link_failed => engine'.loaded = hist[l].loaded0]_vars

\* A move has returned OK: the two files of its snapshot are linked in the
\* tablet directory and the header was reloaded once, in restore mode.
C21_Witness ==
    \E l \in Loaders :
        /\ MoveReturned(l, "OK")
        /\ engine.loaded = <<[tablet_id |-> ld[l].tablet_id,
                              path |-> ld[l].tablet.tablet_path, restore |-> TRUE]>>
        /\ DOMAIN local[ld[l].tablet.tablet_path] = {Hdr1, Dat}
        /\ \A k \in TabletLocks : engine.tablet_locks[ld[l].tablet.id][k] # l

(***************************************************************************)
(* C22: the capacity of the data dir.                                        *)
(***************************************************************************)
\* C22: in download and remote_http_download no transfer is started for a
\* file for which reach_capacity_limit answered true; the step in which it
\* answers true ends the call with the capacity error without a transfer,
\* without a change of the local directory (no file written, none pruned) and
\* without finishing the pair, and nothing is done after it.
C22_CapacityGuard ==
    [][\A l \in Loaders :
          (ld[l].op \in {"download", "remote_http_download"}) =>
            /\ ~hist'[l].over_limit
            /\ (ld[l].status # "ExceededLimit" /\ ld'[l].status = "ExceededLimit") =>
                  /\ ld'[l].pc = "done"
                  /\ local' = local
                  /\ hist'[l].transfers = hist[l].transfers
                  /\ hist'[l].written = hist[l].written
                  /\ ld'[l].finished_num = ld[l].finished_num
                  /\ ld'[l].pair_idx = ld[l].pair_idx
                  /\ \A p \in DOMAIN snapshot_locks' : snapshot_locks'[p] # l
            /\ ld[l].status = "ExceededLimit" =>
                  /\ local' = local
                  /\ ld'[l] = ld[l]
                  /\ hist'[l] = hist[l]]_vars

\* A download has fetched a file and was then refused the next one by the
\* data dir.
C22_Witness ==
    \E l \in Loaders :
        /\ ld[l].op = "download" /\ ld[l].pc = "done"
        /\ ld[l].status = "ExceededLimit"
        /\ hist[l].transfers = 1
        /\ ld[l].file_idx = 2

(***************************************************************************)
(* A Loader from its construction: init is called with some backend kind,   *)
(* or is not called, and then upload or download is called on it.           *)
(***************************************************************************)
\* An init that keeps the file system whose creation failed.
SnapshotLoaderInitAnyway(remote_fs, type, created) ==
    IF type \in {"S3", "HDFS", "BROKER"}
    THEN [st |-> IF created THEN "OK" ELSE "InvalidArgument", remote_fs |-> type]
    ELSE [st |-> "InternalError", remote_fs |-> "S3"]

\* Lines 100-120: SnapshotLoader::init.  `created` is whether the parsing of
\* the location and of the properties and the creation of the file system
\* succeeded; RETURN_IF_ERROR and DORIS_TRY return before _remote_fs is
\* assigned.
SnapshotLoaderInit(remote_fs, type, created) ==
    IF type \in {"S3", "HDFS", "BROKER"}
    THEN IF created THEN [st |-> "OK", remote_fs |-> type]
         ELSE [st |-> "InvalidArgument", remote_fs |-> remote_fs]
    ELSE [st |-> "InternalError", remote_fs |-> remote_fs]

\* Lines 90-98: the constructor leaves _remote_fs null.
Constructed(call) ==
    [call EXCEPT !.pc = "construct", !.fs_type = "NONE", !.init_status = "not called"]

\* The caller calls init.
LoaderInit(l) ==
    /\ ld[l].pc = "construct"
    /\ \E type \in {"S3", "HDFS", "BROKER", "UNKNOWN"}, created \in BOOLEAN :
         LET r == SnapshotLoaderInit(ld[l].fs_type, type, created)
         IN ld' = [ld EXCEPT ![l].pc = "begin", ![l].fs_type = r.remote_fs,
                             ![l].init_status = r.st]
    /\ last_access' = {}
    /\ UNCHANGED <<local, remote, snapshot_locks, fe_cancelled, engine, hist>>

\* The caller goes on without calling init.
LoaderNoInit(l) ==
    /\ ld[l].pc = "construct"
    /\ ld' = [ld EXCEPT ![l].pc = "begin"]
    /\ last_access' = {}
    /\ UNCHANGED <<local, remote, snapshot_locks, fe_cancelled, engine, hist>>

\* The local directories and the remote ones when the Loader is constructed.
BackendLocal ==
    (Snap1 :> DirOf({Hdr1, Dat}, 1)) @@ (SnapB1 :> DirOf({Dat}, 2))

BackendRemote == (Rem1 :> ObjsOf({Hdr1, Dat}, 1)) @@ (UpA :> ObjsOf({Dat}, 2))

InitBackend ==
    /\ InitCommon
    /\ local = BackendLocal
    /\ remote = BackendRemote
    /\ \E call \in {Constructed(InitLocals("upload", "NONE", <<[first |-> Snap1, second |-> UpA]>>)),
            Constructed(InitLocals("download", "NONE", <<[first |-> Rem1, second |-> SnapB1]>>))} :
         ld = [l \in Loaders |-> IF l = "A" THEN call ELSE IdleLocals]

NextBackend ==
    \/ \E l \in Loaders : LoaderInit(l)
    \/ \E l \in Loaders : LoaderNoInit(l)
    \/ \E l \in Loaders : UploadBegin(l)
    \/ \E l \in Loaders : UploadAcquire(l)
    \/ \E l \in Loaders : UploadList(l)
    \/ \E l \in Loaders : UploadFile(l)
    \/ \E l \in Loaders : UploadPairEnd(l)
    \/ \E l \in Loaders : DownloadBegin(l)
    \/ \E l \in Loaders : DownloadAcquire(l)
    \/ \E l \in Loaders : DownloadList(l)
    \/ \E l \in Loaders : DownloadFile(l)
    \/ \E l \in Loaders : DownloadPrune(l)

SpecBackend == InitBackend /\ [][NextBackend]_vars

\* C23: an upload or a download called on a Loader whose init has not
\* returned OK (not called, unknown backend kind, failing configuration)
\* returns the backend-uninitialized error at once: no report RPC was made,
\* no directory was looked at or listed, no lock was taken, nothing was
\* transferred, and no output was written.
C23_BackendUninitialized ==
    \A l \in Loaders :
        (/\ ld[l].op \in {"upload", "download"}
         /\ ld[l].init_status # "OK"
         /\ ld[l].pc \notin {"construct", "begin"}) =>
            /\ ld[l].pc = "done" /\ ld[l].status = "InternalError"
            /\ hist[l].probe = "none" /\ hist[l].rpc = "none"
            /\ hist[l].transfers = 0
            /\ last_access = {}
            /\ \A p \in DOMAIN snapshot_locks : snapshot_locks[p] = NoLoader
            /\ ld[l].remote_files = <<>> /\ ld[l].local_files = <<>>
            /\ ld[l].tablet_files = <<>> /\ ld[l].downloaded_tablet_ids = <<>>
            /\ local = BackendLocal /\ remote = BackendRemote

\* A download was called on a Loader whose init had been given an unknown
\* backend kind, and has returned.
C23_Witness ==
    \E l \in Loaders :
        /\ ld[l].op = "download" /\ ld[l].pc = "done"
        /\ ld[l].init_status = "InternalError"
        /\ ld[l].fs_type = "NONE"
        /\ ld[l].status = "InternalError"

(***************************************************************************)
(* The per-file calls of _report_every of one loop over files: the counter  *)
(* starts at 0 and every call is made with the same threshold; the loop     *)
(* ends when a call returns Cancelled or after MaxCalls files.              *)
(***************************************************************************)
MaxCalls == 34

InitReporter ==
    /\ InitCommon
    /\ local = <<>>
    /\ remote = <<>>
    /\ \E report_threshold \in {0, 2, ReportThreshold} :
         ld = [l \in Loaders |->
                 IF l = "A" THEN ([report_threshold |-> report_threshold, calls |-> 0, rpcs |-> 0,
                          last_rpc_call |-> 0, gap |-> 0, rpc_failed |-> FALSE]
                         @@ InitLocals("report_every", "NONE", <<>>)) ELSE IdleLocals]

\* Lines 173 and 288: the call of _report_every for the next file.
ReportCall(l) ==
    /\ ld[l].op = "report_every" /\ ld[l].pc = "begin"
    /\ ld[l].calls < MaxCalls
    /\ LET s == ld[l]
       IN \E rpc \in RpcChoices(s.report_threshold, s.report_counter) :
            LET rep == ReportEvery(s.report_threshold, s.report_counter, rpc)
                made == rep.rpc # "none"
            IN /\ ld' = [ld EXCEPT
                           ![l].calls = @ + 1,
                           ![l].report_counter = rep.counter,
                           ![l].rpcs = IF made THEN @ + 1 ELSE @,
                           ![l].last_rpc_call = IF made THEN s.calls + 1 ELSE @,
                           ![l].gap = IF made /\ s.rpcs > 0
                                      THEN s.calls + 1 - s.last_rpc_call ELSE @,
                           ![l].rpc_failed = @ \/ rep.rpc = "fail",
                           ![l].pc = IF rep.st # "OK" THEN "done" ELSE @,
                           ![l].status = IF rep.st # "OK" THEN rep.st ELSE @]
               /\ hist' = [hist EXCEPT ![l].rpc = rep.rpc]
    /\ last_access' = {}
    /\ UNCHANGED <<local, remote, snapshot_locks, fe_cancelled, engine>>

\* The loop over the files ends.
ReportLoopEnd(l) ==
    /\ ld[l].op = "report_every" /\ ld[l].pc = "begin"
    /\ ld[l].calls = MaxCalls
    /\ ld' = [ld EXCEPT ![l].pc = "done", ![l].status = "OK"]
    /\ last_access' = {}
    /\ UNCHANGED <<local, remote, snapshot_locks, fe_cancelled, engine, hist>>

NextReporter ==
    \/ Cancel
    \/ \E l \in Loaders : ReportCall(l)
    \/ \E l \in Loaders : ReportLoopEnd(l)

SpecReporter == InitReporter /\ [][NextReporter]_vars

\* C24: with threshold 10 and a counter starting at 0, while no RPC failed,
\* a per-file call of _report_every issues the RPC exactly when it is the
\* 10th, 20th, 30th ... call.
C24_RpcEveryTenthCall ==
    \A l \in Loaders :
        (/\ ld[l].op = "report_every"
         /\ ld[l].report_threshold = ReportThreshold
         /\ ld[l].calls > 0
         /\ ~ld[l].rpc_failed) =>
            (hist[l].rpc # "none" <=> ld[l].calls % ReportThreshold = 0)

\* C25: a call of _report_every that issued the RPC has left the counter at
\* 0, whatever the outcome of the RPC, and more than `threshold` calls lie
\* between two RPCs.
C25_CounterResetByEveryRpc ==
    \A l \in Loaders :
        ld[l].op = "report_every" =>
            /\ hist[l].rpc # "none" => ld[l].report_counter = 0
            /\ ld[l].gap # 0 => ld[l].gap > ld[l].report_threshold

(***************************************************************************)
(* Two Loaders, each on its own thread, each running one call of one of the *)
(* four operations on the same local snapshot path; the coordinator may     *)
(* cancel the job and another actor may hold the migration lock of the      *)
(* tablet.                                                                  *)
(***************************************************************************)
\* The calls of Loader l on /snap/1/7.
LockCalls(l) ==
    {InitLocals("upload", "S3", <<[first |-> Snap1,
                                   second |-> IF l = "A" THEN UpA ELSE <<"bos://wb/", "", "1">>]>>),
     InitLocals("download", "S3", <<[first |-> IF l = "A" THEN Rem1 ELSE RemB1,
                                     second |-> Snap1]>>),
     HttpLocals(<<TRemoteTabletSnapshot(1, Snap1, 1, Peer1)>>, TRUE)}
    \cup {MoveLocals(Snap1, [id |-> 1, tablet_path |-> Tab1, store_path |-> "/data"],
                     overwrite) : overwrite \in BOOLEAN}

InitLock ==
    /\ InitCommon
    /\ local = (Snap1 :> DirOf({Dat}, 1)) @@ (Tab1 :> <<>>)
    /\ remote = (Rem1 :> ObjsOf({Dat}, 2)) @@ (RemB1 :> ObjsOf({Dat}, 1))
                @@ (Peer1 :> DirOf({Dat}, 2))
    /\ \E a \in LockCalls("A"), b \in LockCalls("B") :
         ld = [l \in Loaders |-> IF l = "A" THEN a ELSE b]

\* A step of the thread of Loader l.
LoaderStep(l) ==
    \/ UploadBegin(l) \/ UploadAcquire(l) \/ UploadList(l) \/ UploadFile(l)
    \/ UploadPairEnd(l)
    \/ DownloadBegin(l) \/ DownloadAcquire(l) \/ DownloadList(l) \/ DownloadFile(l)
    \/ DownloadPrune(l)
    \/ HttpBegin(l) \/ HttpAcquire(l) \/ HttpList(l) \/ HttpCompare(l) \/ HttpFile(l)
    \/ HttpPrune(l)
    \/ MoveAcquire(l) \/ MoveValidate(l) \/ MoveLocks(l) \/ MovePromote(l)

NextLock ==
    \/ Cancel
    \/ \E l \in Loaders : UploadBegin(l)
    \/ \E l \in Loaders : UploadAcquire(l)
    \/ \E l \in Loaders : UploadList(l)
    \/ \E l \in Loaders : UploadFile(l)
    \/ \E l \in Loaders : UploadPairEnd(l)
    \/ \E l \in Loaders : DownloadBegin(l)
    \/ \E l \in Loaders : DownloadAcquire(l)
    \/ \E l \in Loaders : DownloadList(l)
    \/ \E l \in Loaders : DownloadFile(l)
    \/ \E l \in Loaders : DownloadPrune(l)
    \/ \E l \in Loaders : HttpBegin(l)
    \/ \E l \in Loaders : HttpAcquire(l)
    \/ \E l \in Loaders : HttpList(l)
    \/ \E l \in Loaders : HttpCompare(l)
    \/ \E l \in Loaders : HttpFile(l)
    \/ \E l \in Loaders : HttpPrune(l)
    \/ \E l \in Loaders : MoveAcquire(l)
    \/ \E l \in Loaders : MoveValidate(l)
    \/ \E l \in Loaders : MoveLocks(l)
    \/ \E l \in Loaders : MovePromote(l)
    \/ \E l \in Loaders : MoveRunning(l) /\ TabletLockTaken(ld[l].tablet.id, "migration")
    \/ \E l \in Loaders : MoveRunning(l) /\ TabletLockReleased(ld[l].tablet.id, "migration")

\* A thread that can take a step takes one: every statement of a call other
\* than LocalSnapshotLock::acquire ends, with a result or an error, and
\* acquire ends once the path is free and stays free.  Every step of a call
\* changes its locals.
SpecLock == InitLock /\ [][NextLock]_vars /\ \A l \in Loaders : WF_ld(LoaderStep(l))

\* The call of Loader l is at its LocalSnapshotLock::acquire.
Acquiring(l) ==
    \/ ld[l].op \in {"upload", "download", "remote_http_download"} /\ ld[l].pc = "acquire"
    \/ ld[l].op = "move" /\ ld[l].pc = "begin"

\* C26: a Loader whose call of upload, download, remote_http_download or
\* move has returned, with any status, holds no lock of the registry; and a
\* Loader blocked in acquire on a path eventually gets past the acquire.
C26_ScopedLockRelease ==
    /\ [](\A l \in Loaders :
            ld[l].pc = "done" => \A p \in DOMAIN snapshot_locks : snapshot_locks[p] # l)
    /\ \A l \in Loaders : (Acquiring(l) /\ snapshot_locks[Snap1] \notin {NoLoader, l}) ~> ~Acquiring(l)

\* A move has left by the exception thrown for overwrite = false and the
\* other Loader holds the lock of the same path.
C26_Witness ==
    \E l \in Loaders, m \in Loaders :
        /\ l # m
        /\ MoveReturned(l, "FatalError")
        /\ snapshot_locks[Snap1] = m
        /\ ~Acquiring(m)

(***************************************************************************)
(* C27: the preconditions of move.                                          *)
(***************************************************************************)
\* C27: a move one of whose preconditions fails returns an error without
\* having called convert_rowset_ids, without having tried a tablet lock and
\* with every local directory as it was.
C27_PreconditionFailureNoEffect ==
    \A l \in Loaders :
        (MoveDone(l) /\ (
                LET s == ld[l]
                    snapshot == GetTabletIdAndSchemaHash(s.snapshot_path)
                    parsed == GetTabletIdAndSchemaHash(s.tablet.tablet_path)
                IN \/ snapshot.ok /\ parsed.ok /\ parsed.tablet_id # snapshot.tablet_id
                   \/ snapshot.ok /\ parsed.ok /\ parsed.schema_hash # snapshot.schema_hash
                   \/ s.tablet.store_path \notin engine.stores
                   \/ s.tablet.tablet_path \notin DOMAIN hist[l].fs0
                   \/ s.snapshot_path \notin DOMAIN hist[l].fs0)) =>
            /\ ld[l].status = "InternalError"
            /\ ~hist[l].converted
            /\ ~hist[l].tried_locks
            /\ local = hist[l].fs0
            /\ engine.loaded = hist[l].loaded0

\* A move of the snapshot directory of tablet 2 onto the directory of
\* tablet 1, both existing and the store known, has returned; the tablet
\* directory holds the files it held.
C27_Witness ==
    \E l \in Loaders :
        /\ MoveReturned(l, "InternalError")
        /\ ld[l].snapshot_path = Snap2 /\ ld[l].tablet.tablet_path = Tab1
        /\ Snap2 \in DOMAIN local /\ Tab1 \in DOMAIN local
        /\ ld[l].tablet.store_path \in engine.stores
        /\ local[Tab1] # <<>>

(***************************************************************************)
(* C28: the tablet locks of move.                                           *)
(***************************************************************************)
\* C28: the step of move that tries the six tablet locks can always be taken,
\* whoever holds them, and a move that has not reached it or has returned,
\* with any status, holds none of the six locks.
C28_TryLocksBorrowed ==
    \A l \in Loaders :
        ld[l].op = "move" =>
            /\ ld[l].pc = "locks" => ENABLED MoveLocks(l)
            /\ ld[l].pc # "promote" =>
                  \A k \in TabletLocks : engine.tablet_locks[ld[l].tablet.id][k] # l

\* A move has returned the obtain-lock-failed error when another actor held
\* one of the locks and the five others were free: they are free again.
C28_Witness ==
    \E l \in Loaders :
        /\ MoveReturned(l, "ObtainLockFailed")
        /\ engine.tablet_locks[ld[l].tablet.id]["meta_store"] = "other"
        /\ \A k \in TabletLocks \ {"meta_store"} :
              engine.tablet_locks[ld[l].tablet.id][k] = NoLoader

(***************************************************************************)
(* C29: an upload run again after an interrupted one.                       *)
(***************************************************************************)
\* The objects <file>.<md5> the upload of Loader l wants in each remote
\* directory, as pairs of the directory and the name.
WantedObjs(l) ==
    UNION {{<<ld[l].src_to_dest_path[i].second, e>> :
                e \in SeqToSet(ManifestOf(ld[l].src_to_dest_path[i].first))} :
           i \in 1..Len(ld[l].src_to_dest_path)}

\* The committed objects of every remote directory of a remote filesystem.
CommittedObjsOf(fs) == UNION {{<<d, o>> : o \in {o \in DOMAIN fs[d] : o[Len(o)] # "part"}} : d \in DOMAIN fs}

\* C29: when an upload that ended with an error after it had called the
\* remote upload, and that left some of the wanted objects on the remote, is
\* run again on the same inputs and returns OK, the second run has sent
\* exactly the files whose object <file>.<md5> was not on the remote when it
\* began, it returns the manifest of an uninterrupted run, and the committed
\* objects of the remote are those it held plus the wanted ones.
C29_RetryConverges ==
    \A l \in Loaders :
        (/\ UploadReturned(l, "OK") /\ hist[l].run = 2
         /\ hist[l].prev[1].status # "OK" /\ hist[l].prev[1].transfers > 0
         /\ WantedObjs(l) \cap CommittedObjsOf(hist[l].prev[1].remote) # {}) =>
            /\ hist[l].transfers
                 = Cardinality(WantedObjs(l) \ CommittedObjsOf(hist[l].prev[1].remote))
            /\ \A i \in 1..Len(ld[l].src_to_dest_path) :
                 (\A j \in 1..(i - 1) : SrcTabletId(l, j) # SrcTabletId(l, i))
                 => ld[l].tablet_files[SrcTabletId(l, i)]
                      = ManifestOf(ld[l].src_to_dest_path[i].first)
            /\ CommittedObjsOf(remote)
                 = CommittedObjsOf(hist[l].prev[1].remote) \cup WantedObjs(l)

(***************************************************************************)
(* C30: what an upload leaves of the remote and of the local directories.   *)
(***************************************************************************)
\* C30: no step of an upload removes an object of a remote directory or
\* changes the local filesystem, and when the upload returns OK the object
\* <name>.<local-md5> of every local file is on the remote, beside the objects
\* <name>.<other-md5> it held.
C30_StaleLeftNothingDeleted ==
    [][\A l \in Loaders :
          ld[l].op = "upload" =>
            /\ local' = local
            /\ \A d \in DOMAIN remote :
                 /\ d \in DOMAIN remote'
                 /\ DOMAIN remote[d] \subseteq DOMAIN remote'[d]
            /\ (ld[l].op = "upload" /\ ld[l].pc # "done" /\ ld'[l].pc = "done" /\ ld'[l].status = "OK") =>
                 \A i \in 1..Len(ld[l].src_to_dest_path) :
                     \A e \in SeqToSet(ManifestOf(ld[l].src_to_dest_path[i].first)) :
                         e \in DOMAIN remote'[ld[l].src_to_dest_path[i].second]]_vars

\* C30 (amended): no step of an upload changes the local filesystem or
\* removes an object of a remote directory, other than the object
\* <name>.part of the file it is uploading to a broker or distributed-fs
\* backend, which the upload overwrites and renames to <name>.<local-md5>;
\* and when the upload returns OK the object <name>.<local-md5> of every
\* local file is on the remote.
C30_StaleLeftOnlyPartReplaced ==
    [][\A l \in Loaders :
          ld[l].op = "upload" =>
            /\ local' = local
            /\ \A d \in DOMAIN remote :
                 /\ d \in DOMAIN remote'
                 /\ \A o \in (DOMAIN remote[d]) \ DOMAIN remote'[d] :
                      /\ ld[l].fs_type # "S3"
                      /\ o[Len(o)] = "part"
                      /\ (
                              /\ ld[l].op = "upload" /\ ld[l].pc = "file"
                              /\ ld[l].file_idx <= Len(ld[l].local_files)
                              /\ ld[l].src_to_dest_path[ld[l].pair_idx].second = d
                              /\ ld[l].local_files[ld[l].file_idx] = (Strip(o)))
                      /\ FullRemotePath(Strip(o), Md5(local[ld[l].src_to_dest_path[
                                                       ld[l].pair_idx].first][Strip(o)]))
                           \in DOMAIN remote'[d]
            /\ (ld[l].op = "upload" /\ ld[l].pc # "done" /\ ld'[l].pc = "done" /\ ld'[l].status = "OK") =>
                 \A i \in 1..Len(ld[l].src_to_dest_path) :
                     \A e \in SeqToSet(ManifestOf(ld[l].src_to_dest_path[i].first)) :
                         e \in DOMAIN remote'[ld[l].src_to_dest_path[i].second]]_vars

\* A second run of an upload has returned OK: when it began the remote held
\* for the data file only an object of another md5, and now holds that object
\* and the object of the local md5.
C30_Witness ==
    \E l \in Loaders :
        /\ UploadReturned(l, "OK") /\ hist[l].run = 2
        /\ Dat \in DOMAIN local[Snap1] /\ local[Snap1][Dat] = 1
        /\ Dat \o <<Md5(2)>> \in DOMAIN hist[l].prev[1].remote[Rem1]
        /\ Dat \o <<Md5(1)>> \notin DOMAIN hist[l].prev[1].remote[Rem1]
        /\ {Dat \o <<Md5(1)>>, Dat \o <<Md5(2)>>} \subseteq DOMAIN remote[Rem1]

(***************************************************************************)
(* Calls on local paths that are not of the form .../<tablet_id>/<hash>.    *)
(***************************************************************************)
\* Local paths: "/snap/1/7", "snap", "/snap/1/", "snap/7", "/7", "/snap/x/7"
\* and "/snap/1/y"; each is an existing directory holding one data file.
PathPool ==
    {Snap1, <<"snap">>, <<"", "snap", "1", "">>, <<"snap", "7">>, <<"", "7">>,
     <<"", "snap", "x", "7">>, <<"", "snap", "1", "y">>}

\* Loader A runs an upload or a download of one pair whose local path is one
\* of the pool, or a move of such a snapshot path onto the directory of
\* tablet 1, "/data/1/7" or "/data/x/7".
InitPath ==
    /\ snapshot_locks = [p \in PathPool |-> NoLoader]
    /\ fe_cancelled = FALSE
    /\ engine = [tablets |-> {1, 2},
                 tablet_locks |-> [i \in {1, 2} |-> [k \in TabletLocks |-> NoLoader]],
                 stores |-> {"/data"},
                 loaded |-> <<>>]
    /\ last_access = {}
    /\ hist = [l \in Loaders |-> InitHist]
    /\ local = [p \in PathPool \cup {Tab1, <<"", "data", "x", "7">>} |-> DirOf({Dat}, 1)]
    /\ remote = (Rem1 :> ObjsOf({Dat}, 2))
    /\ \E p \in PathPool :
         \E call \in {InitLocals("upload", "S3", <<[first |-> p, second |-> UpA]>>),
                      InitLocals("download", "S3", <<[first |-> Rem1, second |-> p]>>)}
                     \cup {MoveLocals(p, [id |-> 1, tablet_path |-> t, store_path |-> "/data"],
                                      TRUE) : t \in {Tab1, <<"", "data", "x", "7">>}} :
            ld = [l \in Loaders |-> IF l = "A" THEN call ELSE IdleLocals]

NextPath ==
    \/ \E l \in Loaders : UploadBegin(l)
    \/ \E l \in Loaders : UploadAcquire(l)
    \/ \E l \in Loaders : UploadList(l)
    \/ \E l \in Loaders : UploadFile(l)
    \/ \E l \in Loaders : UploadPairEnd(l)
    \/ \E l \in Loaders : DownloadBegin(l)
    \/ \E l \in Loaders : DownloadAcquire(l)
    \/ \E l \in Loaders : DownloadList(l)
    \/ \E l \in Loaders : DownloadFile(l)
    \/ \E l \in Loaders : DownloadPrune(l)
    \/ \E l \in Loaders : MoveAcquire(l)
    \/ \E l \in Loaders : MoveValidate(l)
    \/ \E l \in Loaders : MoveLocks(l)
    \/ \E l \in Loaders : MovePromote(l)

SpecPath == InitPath /\ [][NextPath]_vars

\* C31: path-parse errors.  A call whose local path does not end in
\* "/<unsigned integer>/<unsigned integer>" never lists or transfers anything
\* for the pair and, once past the checks made before the path is parsed,
\* ends with the path-parse error.
C31_MalformedPathRejected ==
    \A l \in Loaders :
        LET s == ld[l]
            Unsigned(c) == c \in {"1", "2", "5", "7"}
            WellFormed(p) ==
                Len(p) >= 3 /\ Unsigned(p[Len(p) - 1]) /\ Unsigned(p[Len(p)])
        IN /\ (/\ s.op \in {"upload", "download"}
               /\ ~WellFormed(IF s.op = "upload"
                              THEN s.src_to_dest_path[1].first
                              ELSE s.src_to_dest_path[1].second)) =>
                /\ s.pc \in {"begin", "acquire", "done"}
                /\ s.local_files = <<>> /\ s.remote_files = <<>>
                /\ hist[l].transfers = 0
                /\ (s.pc = "done" /\ hist[l].probe = "passed")
                     => s.status = "InternalError"
           /\ (s.op = "move" /\ ~WellFormed(s.snapshot_path)) =>
                /\ s.pc \in {"begin", "validate", "done"}
                /\ ~hist[l].converted /\ ~hist[l].tried_locks
                /\ s.pc = "done" => s.status = "InternalError"

(***************************************************************************)
(* Objects left next to a committed object.                                 *)
(***************************************************************************)
\* C32: leftover staging objects are harmless.  When the remote directory
\* holds the committed object <name>.<md5> of a local file's bytes and, next
\* to it, <name>.part or <name>.<other-md5>, the step of upload for that file
\* transfers nothing.
C32_LeftoverHarmless ==
    [][\A l \in Loaders :
          (/\ ld[l].op = "upload" /\ ld[l].pc = "file"
           /\ ld[l].file_idx <= Len(ld[l].local_files)) =>
             LET pair == ld[l].src_to_dest_path[ld[l].pair_idx]
                 local_file == ld[l].local_files[ld[l].file_idx]
                 committed == FullRemotePath(local_file, Md5(local[pair.first][local_file]))
                 objs == RemoteObjs(pair.second)
             IN (/\ committed \in DOMAIN objs
                 /\ \E o \in DOMAIN objs : Strip(o) = local_file /\ o # committed)
                  => hist'[l].transfers = hist[l].transfers]_vars

(***************************************************************************)
(* Two Loaders, each running one call of any of the four operations over    *)
(* the local paths /snap/1/7 and /snap/2/7, in one pair or in two.           *)
(***************************************************************************)
InitRegistry ==
    /\ InitCommon
    /\ local = (Snap1 :> DirOf({Dat}, 1)) @@ (Snap2 :> DirOf({Dat}, 1))
               @@ (Tab1 :> <<>>) @@ (<<"", "data", "2", "7">> :> <<>>)
    /\ remote = (Rem1 :> ObjsOf({Dat}, 2)) @@ (Rem2 :> ObjsOf({Dat}, 2))
                @@ (Peer1 :> DirOf({Dat}, 2)) @@ (Peer2 :> DirOf({Dat}, 2))
    /\ LET calls ==
              {InitLocals("upload", "S3", <<[first |-> Snap1, second |-> UpA],
                                            [first |-> Snap2, second |-> UpA]>>),
               InitLocals("upload", "S3", <<[first |-> Snap2, second |-> UpA]>>),
               InitLocals("download", "S3", <<[first |-> Rem1, second |-> Snap1],
                                              [first |-> Rem2, second |-> Snap2]>>),
               HttpLocals(<<TRemoteTabletSnapshot(1, Snap1, 1, Peer1),
                            TRemoteTabletSnapshot(2, Snap2, 2, Peer2)>>, TRUE),
               MoveLocals(Snap1, [id |-> 1, tablet_path |-> Tab1, store_path |-> "/data"],
                          TRUE),
               MoveLocals(Snap2, [id |-> 2, tablet_path |-> <<"", "data", "2", "7">>,
                                  store_path |-> "/data"], TRUE)}
       IN \E a \in calls, b \in calls :
             ld = [l \in Loaders |-> IF l = "A" THEN a ELSE b]

SpecRegistry == InitRegistry /\ [][NextLock]_vars

\* C33: deadlock freedom of the lock registry.  A Loader holds at most one
\* path of the registry and none while it is at an acquire; the step of move
\* that tries the tablet locks can always be taken; and a Loader whose call
\* has not returned and that cannot take a step is at an acquire of a path
\* held by another Loader, which can take a step.
C33_DeadlockFree ==
    \A l \in Loaders :
        LET s == ld[l]
            wanted == CASE s.op = "upload" -> s.src_to_dest_path[s.pair_idx].first
                        [] s.op = "download" -> s.src_to_dest_path[s.pair_idx].second
                        [] s.op = "remote_http_download" ->
                             s.remote_tablet_snapshots[s.pair_idx].local_snapshot_path
                        [] OTHER -> s.snapshot_path
        IN /\ Cardinality({p \in DOMAIN snapshot_locks : snapshot_locks[p] = l}) <= 1
           /\ Acquiring(l) => \A p \in DOMAIN snapshot_locks : snapshot_locks[p] # l
           /\ (s.op = "move" /\ s.pc = "locks") => ENABLED MoveLocks(l)
           /\ (s.pc \notin {"done", "idle"} /\ ~ENABLED LoaderStep(l)) =>
                /\ Acquiring(l)
                /\ snapshot_locks[wanted] \in Loaders \ {l}
                /\ ENABLED LoaderStep(snapshot_locks[wanted])

\* Loader B, past its first pair on /snap/1/7, holds /snap/2/7 while Loader A
\* holds /snap/1/7.
C33_Witness ==
    /\ snapshot_locks[Snap1] = "A" /\ snapshot_locks[Snap2] = "B"
    /\ ld["B"].op \in {"upload", "download", "remote_http_download"}
    /\ ld["B"].pair_idx = 2 /\ ld["B"].finished_num = 1

====
